---- MODULE Spec2Model ----
(***************************************************************************)
(* Model of the insight-derivation pipeline of the hiring dashboard:       *)
(*   data_processor.py : process_job_data, extract_skills_from_text,       *)
(*                       extract_salary_range, aggregate_job_data          *)
(*   analyzer.py       : analyze_hiring_trends, identify_skill_patterns    *)
(*                                                                         *)
(* Conventions.                                                            *)
(*  - A Python str is a sequence of one-character strings, so that the     *)
(*    substring / regular-expression tests of the code are computed.       *)
(*  - A Python dict is a function; its keys are its DOMAIN.  A key that    *)
(*    the code may omit is a key that may be outside the DOMAIN.           *)
(*  - An optional float (None or a number) is <<>> or <<v>>.               *)
(*  - Salaries are kept in thousandths of the returned float (80.0 is      *)
(*    80000, 0.12 is 120), avg_salary in two-thousandths, so that the      *)
(*    division by 1000 and by 2 stay exact.                                *)
(*  - A calendar date is a day number; a date string is a record that      *)
(*    says whether strptime accepts it and which day it denotes.           *)
(***************************************************************************)
EXTENDS Integers, Sequences, FiniteSets, TLC

(***************************************************************************)
(* Characters and strings                                                  *)
(***************************************************************************)
UpperLetters ==
  <<"A","B","C","D","E","F","G","H","I","J","K","L","M",
    "N","O","P","Q","R","S","T","U","V","W","X","Y","Z">>

LowerLetters ==
  <<"a","b","c","d","e","f","g","h","i","j","k","l","m",
    "n","o","p","q","r","s","t","u","v","w","x","y","z">>

Digits == <<"0","1","2","3","4","5","6","7","8","9">>

IsUpper(c) == \E i \in 1..26 : UpperLetters[i] = c

IsLowerLetter(c) == \E i \in 1..26 : LowerLetters[i] = c

IsDigit(c) == \E i \in 1..10 : Digits[i] = c

DigitValue(c) == (CHOOSE i \in 1..10 : Digits[i] = c) - 1

\* str.lower() on one character
LowerChar(c) ==
  IF IsUpper(c) THEN LowerLetters[CHOOSE i \in 1..26 : UpperLetters[i] = c] ELSE c

\* str.lower()
Lower(s) == [i \in 1..Len(s) |-> LowerChar(s[i])]

\* s[i], or the empty string past either end of s
CharAt(s, i) == IF i >= 1 /\ i <= Len(s) THEN s[i] ELSE ""

\* regex \w, \s
IsWordChar(c) == IsUpper(c) \/ IsLowerLetter(c) \/ IsDigit(c) \/ c = "_"

IsSpace(c) == c \in {" ", "\t", "\n", "\r"}

\* sub occurs in s at position p
OccursAt(sub, s, p) ==
  /\ p >= 1
  /\ p + Len(sub) - 1 <= Len(s)
  /\ \A j \in 1..Len(sub) : s[p + j - 1] = sub[j]

\* Python's  sub in s
Contains(sub, s) == \E p \in 1..(Len(s) + 1) : OccursAt(sub, s, p)

\* Python's  keyword.lower() in text.lower()
ContainsIgnoreCase(keyword, text) ==
  LET k == Lower(keyword)
      t == Lower(text)
  IN  Contains(k, t)

\* regex \b at the gap before position p
WordBoundary(s, p) == IsWordChar(CharAt(s, p - 1)) # IsWordChar(CharAt(s, p))

MinOf(S) == CHOOSE x \in S : \A y \in S : x <= y

MaxOf(S) == CHOOSE x \in S : \A y \in S : x >= y

RECURSIVE SumSeq(_)
SumSeq(q) == IF q = <<>> THEN 0 ELSE Head(q) + SumSeq(Tail(q))

RECURSIVE SumOver(_, _)
\* sum(f[k] for k in S)
SumOver(f, S) ==
  IF S = {} THEN 0
  ELSE LET k == CHOOSE x \in S : TRUE IN f[k] + SumOver(f, S \ {k})

Range(q) == {q[i] : i \in 1..Len(q)}

Reverse(q) == [i \in 1..Len(q) |-> q[Len(q) + 1 - i]]

(***************************************************************************)
(* Keyword tables                                                          *)
(***************************************************************************)
common_skills ==
  << <<"P","y","t","h","o","n">>,
     <<"J","a","v","a">>,
     <<"J","a","v","a","S","c","r","i","p","t">>,
     <<"C","+","+">>,
     <<"C","#">>,
     <<"S","Q","L">>,
     <<"R","e","a","c","t">>,
     <<"A","n","g","u","l","a","r">>,
     <<"V","u","e">>,
     <<"N","o","d","e",".","j","s">>,
     <<"A","W","S">>,
     <<"G","C","P">>,
     <<"A","z","u","r","e">>,
     <<"D","o","c","k","e","r">>,
     <<"K","u","b","e","r","n","e","t","e","s">>,
     <<"M","a","c","h","i","n","e"," ","L","e","a","r","n","i","n","g">>,
     <<"A","I">>,
     <<"D","a","t","a"," ","S","c","i","e","n","c","e">>,
     <<"C","l","o","u","d">>,
     <<"D","e","v","O","p","s">>,
     <<"C","I","/","C","D">>,
     <<"A","g","i","l","e">>,
     <<"S","c","r","u","m">>,
     <<"P","r","o","d","u","c","t"," ","M","a","n","a","g","e","m","e","n","t">>,
     <<"U","X">>,
     <<"U","I">>,
     <<"D","e","s","i","g","n">>,
     <<"M","a","r","k","e","t","i","n","g">>,
     <<"S","a","l","e","s">>,
     <<"F","i","n","a","n","c","e">>,
     <<"H","R">>,
     <<"O","p","e","r","a","t","i","o","n","s">>,
     <<"C","o","m","m","u","n","i","c","a","t","i","o","n">>,
     <<"L","e","a","d","e","r","s","h","i","p">>,
     <<"P","r","o","j","e","c","t"," ","M","a","n","a","g","e","m","e","n","t">>,
     <<"T","e","a","m","w","o","r","k">>,
     <<"P","r","o","b","l","e","m"," ","S","o","l","v","i","n","g">>,
     <<"C","r","i","t","i","c","a","l"," ","T","h","i","n","k","i","n","g">>,
     <<"A","n","a","l","y","t","i","c","s">>,
     <<"S","t","a","t","i","s","t","i","c","s">>,
     <<"R","e","s","e","a","r","c","h">>,
     <<"D","e","v","e","l","o","p","m","e","n","t">>,
     <<"T","e","s","t","i","n","g">>,
     <<"Q","A">>,
     <<"S","e","c","u","r","i","t","y">>,
     <<"N","e","t","w","o","r","k","i","n","g">>,
     <<"D","a","t","a","b","a","s","e">>,
     <<"F","r","o","n","t","e","n","d">>,
     <<"B","a","c","k","e","n","d">>,
     <<"F","u","l","l"," ","S","t","a","c","k">>,
     <<"M","o","b","i","l","e">>,
     <<"i","O","S">>,
     <<"A","n","d","r","o","i","d">>,
     <<"R","E","S","T">>,
     <<"A","P","I">>,
     <<"M","i","c","r","o","s","e","r","v","i","c","e","s">>,
     <<"B","i","g"," ","D","a","t","a">>,
     <<"H","a","d","o","o","p">>,
     <<"S","p","a","r","k">>,
     <<"T","a","b","l","e","a","u">>,
     <<"P","o","w","e","r"," ","B","I">>,
     <<"E","x","c","e","l">>,
     <<"W","o","r","d">>,
     <<"P","o","w","e","r","P","o","i","n","t">>,
     <<"O","f","f","i","c","e">>,
     <<"G","i","t">>,
     <<"G","i","t","H","u","b">>,
     <<"J","i","r","a">>,
     <<"C","o","n","f","l","u","e","n","c","e">>,
     <<"S","l","a","c","k">>,
     <<"T","e","a","m","s">> >>

leadership_roles ==
  << <<"C","E","O">>,
     <<"C","F","O">>,
     <<"C","T","O">>,
     <<"C","O","O">>,
     <<"C","H","R","O">>,
     <<"C","M","O">>,
     <<"P","r","e","s","i","d","e","n","t">>,
     <<"D","i","r","e","c","t","o","r">>,
     <<"V","P">>,
     <<"H","e","a","d">> >>

tech_categories ==
  << [name |-> "AI/ML", keywords |->
        << <<"A","I">>,
           <<"M","a","c","h","i","n","e"," ","L","e","a","r","n","i","n","g">>,
           <<"D","a","t","a"," ","S","c","i","e","n","t","i","s","t">>,
           <<"N","L","P">>,
           <<"C","o","m","p","u","t","e","r"," ","V","i","s","i","o","n">>,
           <<"D","e","e","p"," ","L","e","a","r","n","i","n","g">> >>],
     [name |-> "Cloud", keywords |->
        << <<"A","W","S">>,
           <<"A","z","u","r","e">>,
           <<"G","C","P">>,
           <<"C","l","o","u","d">>,
           <<"D","e","v","O","p","s">>,
           <<"S","R","E">>,
           <<"K","u","b","e","r","n","e","t","e","s">> >>],
     [name |-> "Mobile", keywords |->
        << <<"i","O","S">>,
           <<"A","n","d","r","o","i","d">>,
           <<"M","o","b","i","l","e">>,
           <<"R","e","a","c","t"," ","N","a","t","i","v","e">>,
           <<"F","l","u","t","t","e","r">> >>],
     [name |-> "Frontend", keywords |->
        << <<"F","r","o","n","t","e","n","d">>,
           <<"U","I">>,
           <<"U","X">>,
           <<"R","e","a","c","t">>,
           <<"A","n","g","u","l","a","r">>,
           <<"V","u","e">> >>],
     [name |-> "Backend", keywords |->
        << <<"B","a","c","k","e","n","d">>,
           <<"A","P","I">>,
           <<"M","i","c","r","o","s","e","r","v","i","c","e","s">>,
           <<"N","o","d","e",".","j","s">>,
           <<"J","a","v","a">>,
           <<"P","y","t","h","o","n">>,
           <<"G","o">>,
           <<"R","u","b","y">> >>] >>

regions ==
  << [name |-> "North America", keywords |->
        << <<"U","S">>,
           <<"U","S","A">>,
           <<"U","n","i","t","e","d"," ","S","t","a","t","e","s">>,
           <<"C","a","n","a","d","a">>,
           <<"M","e","x","i","c","o">> >>],
     [name |-> "Europe", keywords |->
        << <<"U","K">>,
           <<"U","n","i","t","e","d"," ","K","i","n","g","d","o","m">>,
           <<"G","e","r","m","a","n","y">>,
           <<"F","r","a","n","c","e">>,
           <<"S","p","a","i","n">>,
           <<"I","t","a","l","y">>,
           <<"N","e","t","h","e","r","l","a","n","d","s">>,
           <<"S","w","e","d","e","n">> >>],
     [name |-> "Asia", keywords |->
        << <<"C","h","i","n","a">>,
           <<"J","a","p","a","n">>,
           <<"I","n","d","i","a">>,
           <<"S","i","n","g","a","p","o","r","e">>,
           <<"H","o","n","g"," ","K","o","n","g">> >>],
     [name |-> "Latin America", keywords |->
        << <<"B","r","a","z","i","l">>,
           <<"A","r","g","e","n","t","i","n","a">>,
           <<"C","o","l","o","m","b","i","a">>,
           <<"C","h","i","l","e">>,
           <<"P","e","r","u">> >>],
     [name |-> "Africa", keywords |->
        << <<"S","o","u","t","h"," ","A","f","r","i","c","a">>,
           <<"N","i","g","e","r","i","a">>,
           <<"K","e","n","y","a">>,
           <<"E","g","y","p","t">> >>],
     [name |-> "Australia/Oceania", keywords |->
        << <<"A","u","s","t","r","a","l","i","a">>,
           <<"N","e","w"," ","Z","e","a","l","a","n","d">> >>] >>
(***************************************************************************)
(* The strings of the model                                                *)
(***************************************************************************)
T_AIEngineer == <<"A","I"," ","E","n","g","i","n","e","e","r">>

T_SalesRep == <<"S","a","l","e","s"," ","R","e","p">>

T_SoftwareEngineer == <<"S","o","f","t","w","a","r","e"," ","E","n","g","i","n","e","e","r">>

T_VPSales == <<"V","P"," ","S","a","l","e","s">>

L_Remote == <<"R","e","m","o","t","e">>

L_NewYork == <<"N","e","w"," ","Y","o","r","k",","," ","U","S","A">>

L_London == <<"L","o","n","d","o","n",","," ","U","K">>

R_PythonAI == <<"P","y","t","h","o","n"," ","a","n","d"," ","A","I">>

R_Sales == <<"S","a","l","e","s"," ","e","x","p","e","r","i","e","n","c","e">>

S_80K_120K == <<"$","8","0","K"," ","-"," ","$","1","2","0","K">>

S_Competitive == <<"C","o","m","p","e","t","i","t","i","v","e"," ","s","a","l","a","r","y">>

\* strings with keywords of two groups of a table, and with none
T_AICloudEngineer ==
  <<"A","I"," ","C","l","o","u","d"," ","E","n","g","i","n","e","e","r">>

T_DataEngineer == <<"D","a","t","a"," ","E","n","g","i","n","e","e","r">>

T_Receptionist == <<"R","e","c","e","p","t","i","o","n","i","s","t">>

L_Sydney ==
  <<"S","y","d","n","e","y",","," ","A","u","s","t","r","a","l","i","a">>

L_RemoteUK == <<"R","e","m","o","t","e",","," ","U","K">>

L_Berlin == <<"B","e","r","l","i","n">>

BucketUniverse ==
  <<T_AICloudEngineer, T_DataEngineer, T_Receptionist, L_Sydney, L_RemoteUK, L_Berlin>>

TitleUniverse == <<T_AIEngineer, T_SalesRep, T_SoftwareEngineer, T_VPSales>>

LocationUniverse == <<L_Remote, L_NewYork, L_London>>

RequirementUniverse == <<R_PythonAI, R_Sales>>

\* the order a hash seed gives to the strings of the model
HashOrder(seed) ==
  LET all == TitleUniverse \o LocationUniverse \o common_skills
  IN  IF seed = 0 THEN all ELSE Reverse(all)

(***************************************************************************)
(* extract_skills_from_text                                                *)
(***************************************************************************)
\* re.search(r'\b' + re.escape(skill) + r'\b', text, re.IGNORECASE)
SkillMatches(skill, text) ==
  LET k == Lower(skill)
      t == Lower(text)
  IN  \E p \in 1..(Len(text) + 1) :
        /\ OccursAt(k, t, p)
        /\ WordBoundary(text, p)
        /\ WordBoundary(text, p + Len(skill))

\* found_skills, in the order of common_skills
extract_skills_from_text(text) ==
  SelectSeq(common_skills, LAMBDA skill : SkillMatches(skill, text))

\* extract_skills_from_text on the requirement strings of the model, computed
\* once
SkillsOfRequirement ==
  [text \in Range(RequirementUniverse) |-> extract_skills_from_text(text)]

potential_skills(text) ==
  IF text \in DOMAIN SkillsOfRequirement THEN SkillsOfRequirement[text]
  ELSE extract_skills_from_text(text)

(***************************************************************************)
(* extract_salary_range                                                    *)
(***************************************************************************)
None == <<>>

Some(v) == <<v>>

IsCurrency(c) == c \in {"$", "£", "€"}

RECURSIVE DigitRun(_, _)
\* number of consecutive digits of s from position p on
DigitRun(s, p) == IF IsDigit(CharAt(s, p)) THEN 1 + DigitRun(s, p + 1) ELSE 0

RECURSIVE CommaGroups(_, _)
\* number of consecutive ",ddd" groups of s from position q on
CommaGroups(s, q) ==
  IF /\ CharAt(s, q) = ","
     /\ IsDigit(CharAt(s, q + 1))
     /\ IsDigit(CharAt(s, q + 2))
     /\ IsDigit(CharAt(s, q + 3))
  THEN 1 + CommaGroups(s, q + 4)
  ELSE 0

\* \d{1,3}(?:,\d{3})* taking d leading digits: the positions just after the
\* match, most comma groups first (the order in which the engine tries them)
Alt1EndsFor(s, p, d) ==
  IF d <= DigitRun(s, p)
  THEN LET G == CommaGroups(s, p + d)
       IN  [i \in 1..(G + 1) |-> p + d + 4 * (G + 1 - i)]
  ELSE <<>>

Alt1Ends(s, p) == Alt1EndsFor(s, p, 3) \o Alt1EndsFor(s, p, 2) \o Alt1EndsFor(s, p, 1)

\* \d+ : longest first
Alt2Ends(s, p) ==
  LET m == DigitRun(s, p) IN [i \in 1..m |-> p + m + 1 - i]

\* (\d{1,3}(?:,\d{3})*|\d+) : the first alternative is tried first
GroupEnds(s, p) == Alt1Ends(s, p) \o Alt2Ends(s, p)

RECURSIVE SkipSpaces(_, _)
SkipSpaces(s, q) == IF IsSpace(CharAt(s, q)) THEN SkipSpaces(s, q + 1) ELSE q

\* \s*-\s*[\$£€] followed by a digit, from position q: the position of that
\* digit, or 0 when the text does not continue that way
SeparatorFrom(s, q) ==
  LET a == SkipSpaces(s, q) IN
  IF CharAt(s, a) # "-" THEN 0
  ELSE LET b == SkipSpaces(s, a + 1) IN
       IF IsCurrency(CharAt(s, b)) /\ IsDigit(CharAt(s, b + 1)) THEN b + 1 ELSE 0

\* K?\s*-\s*[\$£€] after a first group that ends before position e
AfterGroup1(s, e) ==
  LET withK == IF CharAt(s, e) = "K" THEN SeparatorFrom(s, e + 1) ELSE 0
  IN  IF withK # 0 THEN withK ELSE SeparatorFrom(s, e)

NoMatch == [matched |-> FALSE]

\* the match of the range pattern that starts at position p, if any.  The
\* pattern ends with the second group and K?, which match whatever follows,
\* so the second group keeps the first way of matching it.
MatchAt(s, p) ==
  LET Groups(e, g2) ==
        [matched |-> TRUE,
         group1  |-> SubSeq(s, p + 1, e - 1),
         group2  |-> SubSeq(s, g2, GroupEnds(s, g2)[1] - 1)]
      First(e) == Groups(e, AfterGroup1(s, e))
      Try(ends, next) ==
        LET ok == {i \in 1..Len(ends) : next[i] # 0}
        IN  IF ok = {} THEN NoMatch ELSE First(ends[MinOf(ok)])
      Continue(ends) ==
        Try(ends, [i \in 1..Len(ends) |-> AfterGroup1(s, ends[i])])
  IN  IF ~IsCurrency(CharAt(s, p)) THEN NoMatch
      ELSE Continue(GroupEnds(s, p + 1))

\* re.search(pattern, salary_text): the leftmost match
re_search(s) ==
  LET Leftmost(at) ==
        LET starts == {p \in 1..Len(s) : at[p].matched}
        IN  IF starts = {} THEN NoMatch ELSE at[MinOf(starts)]
  IN  Leftmost([p \in 1..Len(s) |-> MatchAt(s, p)])

RECURSIVE DigitsValue(_)
\* float(group.replace(',', '')) of a group of digits and commas
DigitsValue(g) ==
  IF g = <<>> THEN 0
  ELSE LET c == g[Len(g)]
           r == DigitsValue(SubSeq(g, 1, Len(g) - 1))
       IN  IF c = "," THEN r ELSE 10 * r + DigitValue(c)

NoneNone == [min_salary |-> None, max_salary |-> None]

\* salary_text is [str |-> <text>], or [other |-> ...] for a value that is not
\* a string (re.search raises TypeError, which the except clause catches).
\* The result is in thousandths of the returned floats.
extract_salary_range(salary_text) ==
  IF "str" \notin DOMAIN salary_text THEN NoneNone
  ELSE LET Scaled(text, min_salary, max_salary) ==
             IF ~Contains(<<"K">>, text) /\ min_salary > 1000
             THEN [min_salary |-> Some(min_salary),
                   max_salary |-> Some(max_salary)]
             ELSE [min_salary |-> Some(1000 * min_salary),
                   max_salary |-> Some(1000 * max_salary)]
           Parsed(text, match) ==
             IF ~match.matched THEN NoneNone
             ELSE Scaled(text, DigitsValue(match.group1), DigitsValue(match.group2))
       IN  Parsed(salary_text.str, re_search(salary_text.str))

\* extract_salary_range on the salary strings of the listings of the model,
\* computed once
SalaryOfText ==
  [text \in {S_80K_120K, S_Competitive} |-> extract_salary_range([str |-> text])]

salary_of(salary_range) ==
  IF "str" \in DOMAIN salary_range /\ salary_range.str \in DOMAIN SalaryOfText
  THEN SalaryOfText[salary_range.str]
  ELSE extract_salary_range(salary_range)

(***************************************************************************)
(* process_job_data                                                        *)
(*                                                                         *)
(* job_listings is the sequence of the (company, listings) items of the    *)
(* input dict, in insertion order.  listings is [list |-> <jobs>], or      *)
(* [other |-> ...] for a value that is not a list (None).  A job is a      *)
(* dict with some of the keys title, location, requirements, date,         *)
(* salary_range:                                                           *)
(*   requirements : [list |-> <texts>], [str |-> <text>] or [other |-> ..] *)
(*   date         : [valid |-> strptime accepts it, day |-> day number]    *)
(*   salary_range : [str |-> <text>] or [other |-> ...]                    *)
(***************************************************************************)
WindowDays == 30

EmptyDict == <<>>

\* a set of strings listed out: list(set) iterates in the order of the hash
\* table, which depends on the interpreter's string hash seed and is the same
\* for the same insertions under the same seed.  HashOrder(seed) is the order
\* that seed gives to the strings of the model.
SetToList(S, order) == SelectSeq(order, LAMBDA x : x \in S)

\* for requirement in job.get("requirements", [])
requirements_of(job) ==
  IF "requirements" \notin DOMAIN job THEN <<>>
  ELSE IF "list" \in DOMAIN job.requirements THEN job.requirements.list
  ELSE [i \in 1..Len(job.requirements.str) |-> <<job.requirements.str[i]>>]

\* an exception inside the try block while one job is processed:
\* KeyError on title or location, TypeError on iterating requirements that
\* are not iterable, ValueError of strptime on a malformed date
JobRaises(job) ==
  \/ "title" \notin DOMAIN job
  \/ "location" \notin DOMAIN job
  \/ "requirements" \in DOMAIN job /\ "other" \in DOMAIN job.requirements
  \/ "date" \in DOMAIN job /\ ~job.date.valid

\* len(listings) raises TypeError when listings is None
LenRaises(listings) == "list" \notin DOMAIN listings

CompanyRaises(listings) ==
  \/ LenRaises(listings)
  \/ \E i \in 1..Len(listings.list) : JobRaises(listings.list[i])

\* lines 48-57
company_roles(jobs) ==
  [role \in {jobs[i].title : i \in 1..Len(jobs)} |->
     Cardinality({i \in 1..Len(jobs) : jobs[i].title = role})]

\* lines 60-69; the variant records a location once however many jobs
\* name it
company_locations_Once(jobs) ==
  [location \in {jobs[i].location : i \in 1..Len(jobs)} |-> 1]

company_locations(jobs) ==
  [location \in {jobs[i].location : i \in 1..Len(jobs)} |->
     Cardinality({i \in 1..Len(jobs) : jobs[i].location = location})]

\* lines 72-85: one count per (job, requirement) whose text names the skill
company_skills(jobs) ==
  LET reqs   == UNION {{<<i, j>> : j \in 1..Len(requirements_of(jobs[i]))} : i \in 1..Len(jobs)}
      found(r) == Range(potential_skills(requirements_of(jobs[r[1]])[r[2]]))
  IN  [skill \in UNION {found(r) : r \in reqs} |->
         Cardinality({r \in reqs : skill \in found(r)})]

\* the window one day short: range(29)
date_counts_ShortWindow(jobs, today) ==
  [date \in (today - (WindowDays - 2))..today |->
     Cardinality({i \in 1..Len(jobs) :
                    "date" \in DOMAIN jobs[i] /\ jobs[i].date.day = date})]

\* lines 88-103: today is datetime.now() of this company's iteration; the
\* keys are the 30 days ending today, a parsed date outside them is dropped
date_counts(jobs, today) ==
  [date \in (today - (WindowDays - 1))..today |->
     Cardinality({i \in 1..Len(jobs) :
                    "date" \in DOMAIN jobs[i] /\ jobs[i].date.day = date})]

Truthy(opt) == opt # None /\ opt[1] # 0

\* lines 106-119
salary_data(jobs) ==
  LET Both(parsed) == Truthy(parsed.min_salary) /\ Truthy(parsed.max_salary)
      Entry(job, parsed) ==
        [role       |-> job.title,
         min_salary |-> parsed.min_salary[1],
         max_salary |-> parsed.max_salary[1],
         avg_salary |-> parsed.min_salary[1] + parsed.max_salary[1]]
      Entries(kept) ==
        [i \in 1..Len(kept) |-> Entry(kept[i], salary_of(kept[i].salary_range))]
  IN  Entries(SelectSeq(jobs, LAMBDA job :
                 /\ "salary_range" \in DOMAIN job
                 /\ Both(salary_of(job.salary_range))))

CompanyNames(job_listings) == [i \in 1..Len(job_listings) |-> job_listings[i][1]]

\* lines 129-140: the result of the except clause
Skeleton(job_listings) ==
  [companies     |-> CompanyNames(job_listings),
   job_counts    |-> [i \in 1..Len(job_listings) |-> Len(job_listings[i][2].list)],
   roles         |-> EmptyDict,
   locations     |-> EmptyDict,
   skills        |-> EmptyDict,
   time_series   |-> EmptyDict,
   salary_ranges |-> EmptyDict]

Raised(exc) == [raised |-> exc]

\* lines 28-127: the result of the try block when nothing raises.  now[i] is
\* the day datetime.now() gives in the iteration of the i-th company.
Processed(job_listings, now, order) ==
  LET n        == Len(job_listings)
      names    == CompanyNames(job_listings)
      jobs(c)  == job_listings[CHOOSE i \in 1..n : names[i] = c][2].list
      day(c)   == now[CHOOSE i \in 1..n : names[i] = c]
      C        == Range(names)
  IN  [companies     |-> names,
       job_counts    |-> [i \in 1..n |-> Len(job_listings[i][2].list)],
       roles         |-> [c \in C |-> company_roles(jobs(c))],
       locations     |-> [c \in C |-> company_locations(jobs(c))],
       skills        |-> [c \in C |-> company_skills(jobs(c))],
       time_series   |-> [c \in C |-> date_counts(jobs(c), day(c))],
       salary_ranges |-> [c \in C |-> salary_data(jobs(c))],
       all_roles     |-> SetToList(UNION {DOMAIN company_roles(jobs(c)) : c \in C}, order),
       all_locations |-> SetToList(UNION {DOMAIN company_locations(jobs(c)) : c \in C}, order),
       all_skills    |-> SetToList(UNION {DOMAIN company_skills(jobs(c)) : c \in C}, order)]

\* an exception in the try block is caught; the except clause evaluates
\* len(listings) for every company again and has no handler of its own
process_job_data(job_listings, now, order) ==
  IF \A i \in 1..Len(job_listings) : ~CompanyRaises(job_listings[i][2])
  THEN Processed(job_listings, now, order)
  ELSE IF \E i \in 1..Len(job_listings) : LenRaises(job_listings[i][2])
       THEN Raised("TypeError")
       ELSE Skeleton(job_listings)

(***************************************************************************)
(* aggregate_job_data                                                      *)
(***************************************************************************)
\* the concatenation of F(q[1]), F(q[2]), ...
FlatMap(q, F(_)) ==
  LET cat[i \in 0..Len(q)] == IF i = 0 THEN <<>> ELSE cat[i - 1] \o F(q[i])
  IN  cat[Len(q)]

RECURSIVE SortedList(_)
\* sorted(list(S)) of a set of day numbers
SortedList(S) ==
  IF S = {} THEN <<>> ELSE <<MinOf(S)>> \o SortedList(S \ {MinOf(S)})

\* lines 297-306
AggregateFallback ==
  [total_jobs_by_company |-> EmptyDict,
   skills_by_company     |-> EmptyDict,
   locations_by_company  |-> EmptyDict,
   roles_by_company      |-> EmptyDict,
   skills_heatmap_data   |-> <<>>,
   location_distribution |-> <<>>,
   role_distribution     |-> <<>>,
   hiring_velocity       |-> <<>>]

\* KeyError on all_skills, all_locations, all_roles (a skeleton has none of
\* them), StopIteration of next(iter(...)) on an empty time_series
AggregateRaises(processed_data) ==
  \/ "all_skills" \notin DOMAIN processed_data
  \/ "all_locations" \notin DOMAIN processed_data
  \/ "all_roles" \notin DOMAIN processed_data
  \/ DOMAIN processed_data.time_series = {}

\* a row without the zero fill: only the companies that have the key
DistributionRow_NoZeroFill(label, key, companies, by_company) ==
  [k \in {label} \cup {c \in Range(companies) :
                         c \in DOMAIN by_company /\ key \in DOMAIN by_company[c]} |->
     IF k = label THEN key ELSE by_company[k][key]]

\* lines 262-279: one zero-filled row per key of the union
DistributionRow(label, key, companies, by_company) ==
  [k \in {label} \cup Range(companies) |->
     IF k = label THEN key
     ELSE IF k \in DOMAIN by_company /\ key \in DOMAIN by_company[k]
          THEN by_company[k][key] ELSE 0]

\* lines 223-293
Aggregated(processed_data) ==
  LET companies == processed_data.companies
      first     == processed_data.time_series[companies[1]]
      dates     == SortedList(DOMAIN first)
      heat(skill) ==
        LET with == SelectSeq(companies, LAMBDA c :
                      c \in DOMAIN processed_data.skills
                      /\ skill \in DOMAIN processed_data.skills[c])
        IN  [i \in 1..Len(with) |->
               [skill |-> skill, company |-> with[i],
                count |-> processed_data.skills[with[i]][skill]]]
  IN  [total_jobs_by_company |->
         [c \in Range(companies) |->
            processed_data.job_counts[CHOOSE i \in 1..Len(companies) : companies[i] = c]],
       skills_by_company     |-> processed_data.skills,
       locations_by_company  |-> processed_data.locations,
       roles_by_company      |-> processed_data.roles,
       skills_heatmap_data   |-> FlatMap(processed_data.all_skills, heat),
       location_distribution |->
         [i \in 1..Len(processed_data.all_locations) |->
            DistributionRow("location", processed_data.all_locations[i],
                            companies, processed_data.locations)],
       role_distribution     |->
         [i \in 1..Len(processed_data.all_roles) |->
            DistributionRow("role", processed_data.all_roles[i],
                            companies, processed_data.roles)],
       hiring_velocity       |->
         [i \in 1..Len(dates) |->
            DistributionRow("date", dates[i], companies, processed_data.time_series)]]

\* lines 210-306; the variant returns the totals that were filled in before
\* the exception
aggregate_job_data_KeepsTotals(processed_data) ==
  IF AggregateRaises(processed_data)
  THEN [AggregateFallback EXCEPT !.total_jobs_by_company =
          [c \in Range(processed_data.companies) |->
             processed_data.job_counts[CHOOSE i \in 1..Len(processed_data.companies) :
                                         processed_data.companies[i] = c]]]
  ELSE Aggregated(processed_data)

aggregate_job_data(processed_data) ==
  IF AggregateRaises(processed_data) THEN AggregateFallback
  ELSE Aggregated(processed_data)

\* the key of processed_data whose maps aggregated[key] holds (lines 239-248)
ProcessedKey(key) ==
  CASE key = "skills_by_company"    -> "skills"
    [] key = "locations_by_company" -> "locations"
    [] OTHER                        -> "roles"

\* lines 239-248: the map of a company is stored in the result as it is, so
\* the result and processed_data hold the same dict object; the fallback of
\* lines 297-306 holds new, empty dicts
SharedMaps(processed_data) ==
  IF AggregateRaises(processed_data) THEN {}
  ELSE {<<"skills_by_company", c>> : c \in DOMAIN processed_data.skills}
       \cup {<<"locations_by_company", c>> : c \in DOMAIN processed_data.locations}
       \cup {<<"roles_by_company", c>> : c \in DOMAIN processed_data.roles}

(***************************************************************************)
(* analyze_hiring_trends                                                   *)
(*                                                                         *)
(* The argument is an AggregatedData-like dict.  A percentage is kept as   *)
(* the fraction [num, den] of the integers it is computed from; the        *)
(* comparisons of the code on the floats agree with the comparisons on     *)
(* the fractions for all counts of the model.  The human-readable          *)
(* "insight" text of a record is a rendering of its other fields and is    *)
(* left out.                                                               *)
(***************************************************************************)
SurgeThreshold == 30

LeadershipMin == 2

TechFocusMin == 3

RemoteThreshold == 50

RegionMin == 3

\* the companies of the model, in the order in which every dict keyed by
\* company is filled (a dict iterates in insertion order)
CompanyOrder == <<"A", "B", "C", "D", "E", "F", "G", "H", "I", "J", "K", "L">>

\* for company, value in d.items()
DictKeys(d) == SelectSeq(CompanyOrder, LAMBDA c : c \in DOMAIN d)

\* any(keyword.lower() in text.lower() for keyword in keywords)
MatchesAny(keywords, text) ==
  \E i \in 1..Len(keywords) : ContainsIgnoreCase(keywords[i], text)

\* any(leader in role for leader in leadership_roles): case-sensitive
IsLeadership(role) ==
  \E i \in 1..Len(leadership_roles) : Contains(leadership_roles[i], role)

\* "remote" in location.lower()
IsRemote(location) == Contains(<<"r","e","m","o","t","e">>, Lower(location))

\* the keyword tests on the titles and locations of the model, computed once
KeywordTests ==
  [text \in Range(TitleUniverse) \cup Range(LocationUniverse)
             \cup Range(BucketUniverse) |->
     [leadership |-> IsLeadership(text),
      remote     |-> IsRemote(text),
      tech       |-> {i \in 1..Len(tech_categories) :
                        MatchesAny(tech_categories[i].keywords, text)},
      regions    |-> {i \in 1..Len(regions) :
                        MatchesAny(regions[i].keywords, text)}]]

CategoryIndex(table, category) ==
  CHOOSE i \in 1..Len(table) : table[i].name = category.name

is_leadership(role) ==
  IF role \in DOMAIN KeywordTests THEN KeywordTests[role].leadership
  ELSE IsLeadership(role)

is_remote(location) ==
  IF location \in DOMAIN KeywordTests THEN KeywordTests[location].remote
  ELSE IsRemote(location)

in_tech_category(category, role) ==
  IF role \in DOMAIN KeywordTests
  THEN CategoryIndex(tech_categories, category) \in KeywordTests[role].tech
  ELSE MatchesAny(category.keywords, role)

in_region(region, location) ==
  IF location \in DOMAIN KeywordTests
  THEN CategoryIndex(regions, region) \in KeywordTests[location].regions
  ELSE MatchesAny(region.keywords, location)

\* sum(count for key, count in counts.items() if P(key))
SumWhere(counts, P(_)) == SumOver(counts, {k \in DOMAIN counts : P(k)})

\* sum(data[company] for data in rows if company in data)
PeriodCount(rows, company) ==
  SumSeq([i \in 1..Len(rows) |->
            IF company \in DOMAIN rows[i] THEN rows[i][company] ELSE 0])

\* lines 36-38; the variant puts the extra row of an odd length in the
\* earlier half
EarlierHalf_RoundedUp(velocity_data) ==
  SubSeq(velocity_data, 1, (Len(velocity_data) + 1) \div 2)

EarlierHalf(velocity_data) == SubSeq(velocity_data, 1, Len(velocity_data) \div 2)

RecentHalf(velocity_data) ==
  SubSeq(velocity_data, Len(velocity_data) \div 2 + 1, Len(velocity_data))

\* the threshold taken inclusively: percent_change >= 30
IsSurge_Inclusive(recent_count, earlier_count) ==
  100 * (recent_count - earlier_count) >= SurgeThreshold * earlier_count

\* percent_change > 30 of line 48, on the fraction
IsSurge(recent_count, earlier_count) ==
  100 * (recent_count - earlier_count) > SurgeThreshold * earlier_count

\* percent_change < -30 of line 55
IsDecline(recent_count, earlier_count) ==
  100 * (recent_count - earlier_count) < (0 - SurgeThreshold) * earlier_count

\* lines 40-61 for one company
VelocityInsight(velocity_data, company) ==
  LET recent_count  == PeriodCount(RecentHalf(velocity_data), company)
      earlier_count == PeriodCount(EarlierHalf(velocity_data), company)
      percent_change == [num |-> 100 * (recent_count - earlier_count),
                         den |-> earlier_count]
  IN  IF earlier_count > 0
      THEN IF IsSurge(recent_count, earlier_count)
           THEN <<[type |-> "hiring_surge", company |-> company,
                   percent_change |-> percent_change]>>
           ELSE IF IsDecline(recent_count, earlier_count)
                THEN <<[type |-> "hiring_decline", company |-> company,
                        percent_change |-> percent_change]>>
                ELSE <<>>
      ELSE <<>>

\* lines 32-61
VelocityInsights(data) ==
  IF "hiring_velocity" \notin DOMAIN data THEN <<>>
  ELSE FlatMap(data.companies,
               LAMBDA company : VelocityInsight(data.hiring_velocity, company))

\* lines 89-100 for one company and one category
TechFocusInsight(company, roles, category) ==
  LET category_count ==
        SumWhere(roles, LAMBDA role : in_tech_category(category, role))
  IN  IF category_count >= TechFocusMin
      THEN <<[type |-> "technology_focus", company |-> company,
              category |-> category.name, count |-> category_count]>>
      ELSE <<>>

\* lines 66-100 for one company
RoleInsight(company, roles) ==
  LET leadership_count == SumWhere(roles, is_leadership)
  IN  (IF leadership_count >= LeadershipMin
       THEN <<[type |-> "leadership_changes", company |-> company,
               count |-> leadership_count]>>
       ELSE <<>>)
      \o FlatMap(tech_categories,
                 LAMBDA category : TechFocusInsight(company, roles, category))

\* lines 64-100
RoleInsights(data) ==
  IF "roles_by_company" \notin DOMAIN data THEN <<>>
  ELSE FlatMap(DictKeys(data.roles_by_company),
               LAMBDA company : RoleInsight(company, data.roles_by_company[company]))

\* lines 130-145 for one company and one region: every region one of whose
\* keywords the location contains is counted (the loop has no break)
RegionInsight(company, locations, region) ==
  LET count == SumWhere(locations, LAMBDA location : in_region(region, location))
  IN  IF count >= RegionMin
      THEN <<[type |-> "geographic_expansion", company |-> company,
              region |-> region.name, count |-> count]>>
      ELSE <<>>

\* lines 104-145 for one company
LocationInsight(company, locations) ==
  LET remote_count == SumWhere(locations, is_remote)
      total_jobs   == SumOver(locations, DOMAIN locations)
  IN  (IF total_jobs > 0 /\ 100 * remote_count > RemoteThreshold * total_jobs
       THEN <<[type |-> "remote_work", company |-> company,
               percentage |-> [num |-> 100 * remote_count, den |-> total_jobs]]>>
       ELSE <<>>)
      \o FlatMap(regions, LAMBDA region : RegionInsight(company, locations, region))

\* lines 103-145
LocationInsights(data) ==
  IF "locations_by_company" \notin DOMAIN data THEN <<>>
  ELSE FlatMap(DictKeys(data.locations_by_company),
               LAMBDA company : LocationInsight(company, data.locations_by_company[company]))

\* KeyError of processed_data["companies"] at line 40, AttributeError of
\* .items() at line 104 on a locations_by_company that is None, caught at
\* line 150
HiringTrendsRaises(data) ==
  \/ "hiring_velocity" \in DOMAIN data /\ "companies" \notin DOMAIN data
  \/ /\ "locations_by_company" \in DOMAIN data
     /\ "other" \in DOMAIN data.locations_by_company

\* lines 28-152; the variant returns what was built before the exception of
\* the location section
analyze_hiring_trends_Partial(data) ==
  IF "hiring_velocity" \in DOMAIN data /\ "companies" \notin DOMAIN data THEN <<>>
  ELSE VelocityInsights(data) \o RoleInsights(data)
       \o (IF HiringTrendsRaises(data) THEN <<>> ELSE LocationInsights(data))

analyze_hiring_trends(data) ==
  IF HiringTrendsRaises(data) THEN <<>>
  ELSE VelocityInsights(data) \o RoleInsights(data) \o LocationInsights(data)

(***************************************************************************)
(* identify_skill_patterns                                                 *)
(*                                                                         *)
(* A prevalence is the fraction [num, den] = companies_with_skill /        *)
(* len(companies); its comparisons with 0.1, 0.4 and 0.7 are made in       *)
(* tenths.  order is the iteration order of the set all_skills.  A dict    *)
(* of skills iterates in the order of common_skills.                       *)
(***************************************************************************)
EmergingMinTenths == 1

EmergingMaxTenths == 4

EmergingMinDemand == 5

CompetitiveMinTenths == 7

CompetitiveMinDemand == 10

TopSkills == 5

UniqueMinCount == 2

TopUnique == 3

\* q[:n]
Take(q, n) == SubSeq(q, 1, IF Len(q) < n THEN Len(q) ELSE n)

\* q.sort(key=Key, reverse=True): stable, equal keys keep their order
SortDescending(q, Key(_)) ==
  LET Insert(sorted, x) ==
        LET pos == Cardinality({j \in 1..Len(sorted) : Key(sorted[j]) >= Key(x)})
        IN  SubSeq(sorted, 1, pos) \o <<x>> \o SubSeq(sorted, pos + 1, Len(sorted))
      upto[i \in 0..Len(q)] == IF i = 0 THEN <<>> ELSE Insert(upto[i - 1], q[i])
  IN  upto[Len(q)]

\* lines 171-173
AllSkills(skills_by_company) ==
  UNION {DOMAIN skills_by_company[c] : c \in DOMAIN skills_by_company}

\* lines 178-179
CompaniesWithSkill(skills_by_company, skill) ==
  Cardinality({c \in DOMAIN skills_by_company : skill \in DOMAIN skills_by_company[c]})

\* sum(skills.get(skill, 0) for skills in skills_by_company.values())
TotalDemand(skills_by_company, skill) ==
  SumOver([c \in DOMAIN skills_by_company |->
             IF skill \in DOMAIN skills_by_company[c] THEN skills_by_company[c][skill] ELSE 0],
          DOMAIN skills_by_company)

\* the upper prevalence bound taken strictly: prevalence < 0.4
IsEmerging_StrictUpper(data, skill) ==
  LET k == CompaniesWithSkill(data.skills_by_company, skill)
      n == Len(data.companies)
  IN  /\ 10 * k >= EmergingMinTenths * n
      /\ 10 * k < EmergingMaxTenths * n
      /\ TotalDemand(data.skills_by_company, skill) >= EmergingMinDemand

\* 0.1 <= prevalence <= 0.4 and total_demand >= 5 (lines 185-187)
IsEmerging(data, skill) ==
  LET k == CompaniesWithSkill(data.skills_by_company, skill)
      n == Len(data.companies)
  IN  /\ 10 * k >= EmergingMinTenths * n
      /\ 10 * k <= EmergingMaxTenths * n
      /\ TotalDemand(data.skills_by_company, skill) >= EmergingMinDemand

\* prevalence >= 0.7 and total_demand >= 10 (lines 204-206)
IsCompetitive(data, skill) ==
  LET k == CompaniesWithSkill(data.skills_by_company, skill)
      n == Len(data.companies)
  IN  /\ 10 * k >= CompetitiveMinTenths * n
      /\ TotalDemand(data.skills_by_company, skill) >= CompetitiveMinDemand

SkillInsight(type, data, skill) ==
  [type       |-> type,
   skill      |-> skill,
   prevalence |-> [num |-> CompaniesWithSkill(data.skills_by_company, skill),
                   den |-> Len(data.companies)],
   demand     |-> TotalDemand(data.skills_by_company, skill)]

\* lines 183-199
EmergingInsights(data, order) ==
  LET emerging_skills ==
        SelectSeq(SetToList(AllSkills(data.skills_by_company), order),
                  LAMBDA skill : IsEmerging(data, skill))
      sorted == SortDescending(emerging_skills,
                  LAMBDA skill : TotalDemand(data.skills_by_company, skill))
      top    == Take(sorted, TopSkills)
  IN  [i \in 1..Len(top) |-> SkillInsight("emerging_skill", data, top[i])]

\* lines 202-218
CompetitiveInsights(data, order) ==
  LET competitive_skills ==
        SelectSeq(SetToList(AllSkills(data.skills_by_company), order),
                  LAMBDA skill : IsCompetitive(data, skill))
      sorted == SortDescending(competitive_skills,
                  LAMBDA skill : TotalDemand(data.skills_by_company, skill))
      top    == Take(sorted, TopSkills)
  IN  [i \in 1..Len(top) |-> SkillInsight("competitive_skill", data, top[i])]

\* another company counts only when it lists the skill at least twice
IsUniqueTo_IgnoresSingle(skills_by_company, company, skill) ==
  /\ Cardinality({c \in DOMAIN skills_by_company :
                    /\ c # company
                    /\ skill \in DOMAIN skills_by_company[c]
                    /\ skills_by_company[c][skill] >= UniqueMinCount}) = 0
  /\ skills_by_company[company][skill] >= UniqueMinCount

\* lines 227-230
IsUniqueTo(skills_by_company, company, skill) ==
  /\ Cardinality({c \in DOMAIN skills_by_company :
                    c # company /\ skill \in DOMAIN skills_by_company[c]}) = 0
  /\ skills_by_company[company][skill] >= UniqueMinCount

\* lines 222-242 for one company
UniqueInsight(data, company) ==
  IF company \notin DOMAIN data.skills_by_company THEN <<>>
  ELSE LET company_skills_ == data.skills_by_company[company]
           unique_skills ==
             SelectSeq(SetToList(DOMAIN company_skills_, common_skills),
                       LAMBDA skill : IsUniqueTo(data.skills_by_company, company, skill))
           sorted == SortDescending(unique_skills, LAMBDA skill : company_skills_[skill])
           top    == Take(sorted, TopUnique)
       IN  [i \in 1..Len(top) |->
              [type |-> "unique_skill", company |-> company,
               skill |-> top[i], count |-> company_skills_[top[i]]]]

\* KeyError of processed_data["companies"] (line 180, or line 221 when there
\* is no skill), ZeroDivisionError of line 180 when the company list is empty
SkillPatternsRaises(data) ==
  /\ "skills_by_company" \in DOMAIN data
  /\ \/ "companies" \notin DOMAIN data
     \/ AllSkills(data.skills_by_company) # {} /\ Len(data.companies) = 0

\* lines 166-249
identify_skill_patterns(data, order) ==
  IF "skills_by_company" \notin DOMAIN data \/ SkillPatternsRaises(data) THEN <<>>
  ELSE EmergingInsights(data, order)
       \o CompetitiveInsights(data, order)
       \o FlatMap(data.companies, LAMBDA company : UniqueInsight(data, company))

(***************************************************************************)
(* detect_market_shifts                                                    *)
(*                                                                         *)
(* A percentage is the fraction [num, den] = 100 * count / total.  Its     *)
(* comparisons are made exactly; the floats of the code compare the same   *)
(* way for totals below 20.                                                *)
(***************************************************************************)
CategoryFocusMin == 40

DivergenceMin == 30

DivergenceTopMin == 25

GeographicShiftMin == 20

\* lines 269-277
role_categories ==
  << [name |-> "Engineering", keywords |->
        << <<"E","n","g","i","n","e","e","r">>,
           <<"D","e","v","e","l","o","p","e","r">>,
           <<"P","r","o","g","r","a","m","m","e","r">>,
           <<"A","r","c","h","i","t","e","c","t">> >>],
     [name |-> "Data", keywords |->
        << <<"D","a","t","a">>,
           <<"A","n","a","l","y","t","i","c","s">>,
           <<"S","c","i","e","n","t","i","s","t">>,
           <<"A","n","a","l","y","s","t">> >>],
     [name |-> "Product", keywords |->
        << <<"P","r","o","d","u","c","t">>,
           <<"M","a","n","a","g","e","r">>,
           <<"O","w","n","e","r">> >>],
     [name |-> "Design", keywords |->
        << <<"D","e","s","i","g","n">>,
           <<"U","X">>,
           <<"U","I">>,
           <<"U","s","e","r"," ","E","x","p","e","r","i","e","n","c","e">> >>],
     [name |-> "Marketing", keywords |->
        << <<"M","a","r","k","e","t","i","n","g">>,
           <<"G","r","o","w","t","h">>,
           <<"S","E","O">>,
           <<"C","o","n","t","e","n","t">> >>],
     [name |-> "Sales", keywords |->
        << <<"S","a","l","e","s">>,
           <<"A","c","c","o","u","n","t">>,
           <<"B","u","s","i","n","e","s","s"," ","D","e","v","e","l","o","p","m","e","n","t">> >>],
     [name |-> "Operations", keywords |->
        << <<"O","p","e","r","a","t","i","o","n","s">>,
           <<"S","u","p","p","o","r","t">>,
           <<"C","u","s","t","o","m","e","r"," ","S","u","c","c","e","s","s">> >>] >>

\* lines 345-351
shift_regions ==
  << [name |-> "North America", keywords |->
        << <<"U","S">>,
           <<"U","S","A">>,
           <<"U","n","i","t","e","d"," ","S","t","a","t","e","s">>,
           <<"C","a","n","a","d","a">>,
           <<"M","e","x","i","c","o">> >>],
     [name |-> "Europe", keywords |->
        << <<"U","K">>,
           <<"U","n","i","t","e","d"," ","K","i","n","g","d","o","m">>,
           <<"G","e","r","m","a","n","y">>,
           <<"F","r","a","n","c","e">>,
           <<"S","p","a","i","n">>,
           <<"I","t","a","l","y">>,
           <<"N","e","t","h","e","r","l","a","n","d","s">>,
           <<"S","w","e","d","e","n">> >>],
     [name |-> "Asia", keywords |->
        << <<"C","h","i","n","a">>,
           <<"J","a","p","a","n">>,
           <<"I","n","d","i","a">>,
           <<"S","i","n","g","a","p","o","r","e">>,
           <<"H","o","n","g"," ","K","o","n","g">> >>],
     [name |-> "Latin America", keywords |->
        << <<"B","r","a","z","i","l">>,
           <<"A","r","g","e","n","t","i","n","a">>,
           <<"C","o","l","o","m","b","i","a">>,
           <<"C","h","i","l","e">>,
           <<"P","e","r","u">> >>],
     [name |-> "Remote", keywords |->
        << <<"R","e","m","o","t","e">>,
           <<"V","i","r","t","u","a","l">>,
           <<"W","o","r","k"," ","f","r","o","m"," ","h","o","m","e">>,
           <<"W","F","H">> >>] >>

\* the category assigned to a text: the first of the table with a keyword
\* in the text, 0 for None
AssignedIndex(table, text) ==
  LET First(hits) == IF hits = {} THEN 0 ELSE MinOf(hits)
  IN  First({i \in 1..Len(table) : MatchesAny(table[i].keywords, text)})

\* the assignments of the titles and locations of the model, computed once
ShiftTests ==
  [text \in Range(TitleUniverse) \cup Range(LocationUniverse)
             \cup Range(BucketUniverse) |->
     [category |-> AssignedIndex(role_categories, text),
      region   |-> AssignedIndex(shift_regions, text)]]

assigned_category(role) ==
  IF role \in DOMAIN ShiftTests THEN ShiftTests[role].category
  ELSE AssignedIndex(role_categories, role)

assigned_region(location) ==
  IF location \in DOMAIN ShiftTests THEN ShiftTests[location].region
  ELSE AssignedIndex(shift_regions, location)

\* the keys of a dict built by a comprehension over the list q
FirstOccurrences(q) ==
  LET Pick(keep) == [k \in 1..Len(keep) |-> q[keep[k]]]
  IN  Pick(SelectSeq([i \in 1..Len(q) |-> i],
                     LAMBDA i : \A j \in 1..(i - 1) : q[j] # q[i]))

\* category_counts / region_counts of one company: rows[i] is added to the
\* group assigned[i] once for every occurrence of the company in the list
GroupCounts(companies, rows, assigned, n, company) ==
  LET times == Cardinality({i \in 1..Len(companies) : companies[i] = company})
  IN  [k \in 1..n |->
         times * SumSeq([i \in 1..Len(rows) |->
                           IF assigned[i] = k /\ company \in DOMAIN rows[i]
                           THEN rows[i][company] ELSE 0])]

Percentage(count, total) == [num |-> 100 * count, den |-> total]

\* a >= b for percentages
AtLeast(a, b) == a.num * b.den >= b.num * a.den

\* percentage >= threshold
Reaches(percentage, threshold) == percentage.num >= threshold * percentage.den

Difference(a, b) == [num |-> a.num * b.den - b.num * a.den, den |-> a.den * b.den]

\* lines 306-315, for one company and its category counts
CategoryFocusInsight(company, counts) ==
  LET Focus(total) ==
        LET hits == SelectSeq([k \in 1..Len(counts) |-> k],
                              LAMBDA k : Reaches(Percentage(counts[k], total), CategoryFocusMin))
        IN  [i \in 1..Len(hits) |->
               [type |-> "category_focus", company |-> company,
                category |-> role_categories[hits[i]].name,
                percentage |-> Percentage(counts[hits[i]], total)]]
  IN  IF SumSeq(counts) > 0 THEN Focus(SumSeq(counts)) ELSE <<>>

\* lines 319-340, for one category: pairs is the list of (company,
\* percentage) in the order of category_percentages; the sort is stable, so
\* the top is the first of the highest and the bottom the last of the lowest;
\* the variant asks for a difference above 30
DivergenceInsight_Strict(category, pairs) ==
  LET Emit(top, bottom) ==
        IF /\ ~Reaches(Difference(bottom.percentage, top.percentage), 0 - DivergenceMin)
           /\ Reaches(top.percentage, DivergenceTopMin)
        THEN << [type |-> "divergent_strategy", category |-> category,
                 top_company |-> top.company, top_percentage |-> top.percentage,
                 bottom_company |-> bottom.company,
                 bottom_percentage |-> bottom.percentage,
                 difference |-> Difference(top.percentage, bottom.percentage)] >>
        ELSE <<>>
      highest == {i \in 1..Len(pairs) :
                    \A j \in 1..Len(pairs) : AtLeast(pairs[i].percentage, pairs[j].percentage)}
      lowest  == {i \in 1..Len(pairs) :
                    \A j \in 1..Len(pairs) : AtLeast(pairs[j].percentage, pairs[i].percentage)}
  IN  Emit(pairs[MinOf(highest)], pairs[MaxOf(lowest)])

DivergenceInsight(category, pairs) ==
  LET Emit(top, bottom) ==
        IF /\ Reaches(Difference(top.percentage, bottom.percentage), DivergenceMin)
           /\ Reaches(top.percentage, DivergenceTopMin)
        THEN << [type |-> "divergent_strategy", category |-> category,
                 top_company |-> top.company, top_percentage |-> top.percentage,
                 bottom_company |-> bottom.company,
                 bottom_percentage |-> bottom.percentage,
                 difference |-> Difference(top.percentage, bottom.percentage)] >>
        ELSE <<>>
      highest == {i \in 1..Len(pairs) :
                    \A j \in 1..Len(pairs) : AtLeast(pairs[i].percentage, pairs[j].percentage)}
      lowest  == {i \in 1..Len(pairs) :
                    \A j \in 1..Len(pairs) : AtLeast(pairs[j].percentage, pairs[i].percentage)}
  IN  Emit(pairs[MinOf(highest)], pairs[MaxOf(lowest)])

\* lines 318-340: measured is the list of the companies with a positive total
DivergenceInsights(measured, counts) ==
  IF Len(measured) < 2 THEN <<>>
  ELSE FlatMap([k \in 1..Len(role_categories) |-> k],
               LAMBDA k :
                 DivergenceInsight(role_categories[k].name,
                   [i \in 1..Len(measured) |->
                      [company    |-> measured[i],
                       percentage |-> Percentage(counts[measured[i]][k],
                                                 SumSeq(counts[measured[i]]))]]))

\* lines 267-340
RoleShiftInsights(data) ==
  LET Sections(keys, counts) ==
        FlatMap(keys, LAMBDA company : CategoryFocusInsight(company, counts[company]))
        \o DivergenceInsights(SelectSeq(keys, LAMBDA company : SumSeq(counts[company]) > 0),
                              counts)
      Counted(rows, assigned) ==
        Sections(FirstOccurrences(data.companies),
                 [company \in Range(data.companies) |->
                    GroupCounts(data.companies, rows, assigned, Len(role_categories), company)])
  IN  Counted(data.role_distribution,
              [i \in 1..Len(data.role_distribution) |->
                 assigned_category(data.role_distribution[i].role)])

\* lines 372-385, for one company and its region counts
GeographicShiftInsight(company, counts) ==
  LET Shift(total) ==
        LET hits == SelectSeq([k \in 1..Len(counts) |-> k],
                              LAMBDA k : /\ shift_regions[k].name # "North America"
                                         /\ Reaches(Percentage(counts[k], total),
                                                    GeographicShiftMin))
        IN  [i \in 1..Len(hits) |->
               [type |-> "geographic_shift", company |-> company,
                region |-> shift_regions[hits[i]].name,
                percentage |-> Percentage(counts[hits[i]], total)]]
  IN  IF SumSeq(counts) > 0 THEN Shift(SumSeq(counts)) ELSE <<>>

\* lines 343-385
GeographicShiftInsights(data) ==
  LET Counted(rows, assigned) ==
        FlatMap(FirstOccurrences(data.companies),
                LAMBDA company :
                  GeographicShiftInsight(company,
                    GroupCounts(data.companies, rows, assigned, Len(shift_regions), company)))
  IN  Counted(data.location_distribution,
              [i \in 1..Len(data.location_distribution) |->
                 assigned_region(data.location_distribution[i].location)])

\* KeyError of processed_data["companies"] (lines 280, 354), KeyError of
\* location_data["location"] (line 357) on a row without that key
MarketShiftsRaises(data) ==
  \/ /\ "companies" \notin DOMAIN data
     /\ "role_distribution" \in DOMAIN data \/ "location_distribution" \in DOMAIN data
  \/ /\ "location_distribution" \in DOMAIN data
     /\ \E i \in 1..Len(data.location_distribution) :
          "location" \notin DOMAIN data.location_distribution[i]

\* lines 263-392
detect_market_shifts(data) ==
  IF MarketShiftsRaises(data) THEN <<>>
  ELSE (IF "role_distribution" \in DOMAIN data THEN RoleShiftInsights(data) ELSE <<>>)
       \o (IF "location_distribution" \in DOMAIN data
           THEN GeographicShiftInsights(data) ELSE <<>>)

(***************************************************************************)
(* analyze_industry_trends                                                 *)
(*                                                                         *)
(* companies_data is the list of the metadata records, each with some of   *)
(* the keys name and industry.  The result is a dict keyed by industry,    *)
(* EmptyDict when the function degrades.  A velocity is the fraction       *)
(* [num, den] = sum of the counts / number of periods, a ratio with den 0  *)
(* is float('inf').  A dict of locations iterates in the order of          *)
(* LocationUniverse.                                                       *)
(***************************************************************************)
MinIndustryCompanies == 2

\* vel >= industry_avg * 1.25, in quarters
LeaderFactorQuarters == 5

TopIndustrySkills == 5

TopIndustryLocations == 3

\* company.get("name") of a record without name
NoName == "<None>"

\* lines 411-412: the label of a record, if it has a truthy one
HasIndustry(record) == "industry" \in DOMAIN record /\ record.industry # ""

NameOf(record) == IF "name" \in DOMAIN record THEN record.name ELSE NoName

\* lines 409-415: the industries in insertion order, the names of an industry
IndustryOrder(companies_data) ==
  FirstOccurrences(
    LET labelled == SelectSeq(companies_data, HasIndustry)
    IN  [i \in 1..Len(labelled) |-> labelled[i].industry])

IndustryCompanies(companies_data, industry) ==
  LET members == SelectSeq(companies_data,
                           LAMBDA r : HasIndustry(r) /\ r.industry = industry)
  IN  [i \in 1..Len(members) |-> NameOf(members[i])]

\* sum(data.get(company, 0) for data in velocity_data)
VelocitySum(velocity_data, company) == PeriodCount(velocity_data, company)

\* vel >= industry_avg * 1.25 for a company with the sum of counts sum, in
\* an industry of n measured companies with the sum of counts total; asked
\* of a company that has posted jobs only, or taken strictly, in the variants
IsAboveAverage_Positive(n, sum, total) ==
  sum > 0 /\ 4 * n * sum >= LeaderFactorQuarters * total

IsAboveAverage_Strict(n, sum, total) == 4 * n * sum > LeaderFactorQuarters * total

IsAboveAverage(n, sum, total) == 4 * n * sum >= LeaderFactorQuarters * total

\* lines 455-458: ((velocity / industry_avg) - 1) * 100 for a company with the
\* sum of counts sum among n measured companies with the sum total, 100 when
\* the average is zero
PercentageAbove(n, sum, total) ==
  IF total > 0 THEN [num |-> 100 * (n * sum - total), den |-> total]
  ELSE [num |-> 100, den |-> 1]

\* lines 428-467 for one industry; the key insight holds the number that
\* the text of the insight gives
LeaderInsight(data, industry, industry_companies) ==
  LET Sum(c) == VelocitySum(data.hiring_velocity, c)
      Emit(measured, sums, total) ==
        LET above == SelectSeq([i \in 1..Len(measured) |-> i],
                       LAMBDA i : IsAboveAverage(Len(measured), sums[i], total))
            best  == {i \in Range(above) : \A j \in Range(above) : sums[i] >= sums[j]}
        IN  IF above = <<>> THEN <<>>
            ELSE << [type |-> "industry_leader",
                     company |-> measured[MinOf(best)],
                     industry |-> industry,
                     velocity |-> [num |-> sums[MinOf(best)], den |-> Len(data.hiring_velocity)],
                     industry_avg |-> [num |-> total,
                                       den |-> Len(data.hiring_velocity) * Len(measured)],
                     insight |-> [percentage_above |->
                                    PercentageAbove(Len(measured), sums[MinOf(best)], total)]] >>
      Measure(measured) ==
        IF measured = <<>> THEN <<>>
        ELSE Emit(measured, [i \in 1..Len(measured) |-> Sum(measured[i])],
                  SumSeq([i \in 1..Len(measured) |-> Sum(measured[i])]))
  IN  IF "hiring_velocity" \notin DOMAIN data \/ Len(data.hiring_velocity) = 0 THEN <<>>
      ELSE Measure(FirstOccurrences(
                     SelectSeq(industry_companies, LAMBDA c : c \in Range(data.companies))))

\* the keys of the dict that sums the counts of the maps of the members, in
\* insertion order, and the sum of a key (lines 472-479, 541-548)
MergedKeys(by_company, industry_companies, order) ==
  FirstOccurrences(
    FlatMap(industry_companies,
            LAMBDA c : IF c \in DOMAIN by_company
                       THEN SetToList(DOMAIN by_company[c], order) ELSE <<>>))

MergedCount(by_company, industry_companies, key) ==
  SumSeq([i \in 1..Len(industry_companies) |->
            IF /\ industry_companies[i] \in DOMAIN by_company
               /\ key \in DOMAIN by_company[industry_companies[i]]
            THEN by_company[industry_companies[i]][key] ELSE 0])

\* sorted(merged.items(), key=lambda x: x[1], reverse=True)[:n], the keys
TopKeys(by_company, industry_companies, order, n) ==
  Take(SortDescending(MergedKeys(by_company, industry_companies, order),
                      LAMBDA key : MergedCount(by_company, industry_companies, key)),
       n)

\* sum(1 for company in companies if company in skills_by_company and
\* skill in skills_by_company[company])
Listing(skills_by_company, companies, skill) ==
  Cardinality({i \in 1..Len(companies) :
                 /\ companies[i] \in DOMAIN skills_by_company
                 /\ skill \in DOMAIN skills_by_company[companies[i]]})

\* lines 500-524: industry_prevalence >= 0.4 and prevalence_ratio >= 2 for a
\* skill that a of the n companies of the industry and b of the m companies
\* of the other industries list (other_prevalence is at least 0.01 when it
\* is positive: m stays below 100); the variant asks for half of the
\* companies of the industry
IsIndustrySpecific_Half(a, n, b, m) ==
  /\ 10 * a >= 5 * n
  /\ b > 0 /\ m > 0 => a * m >= 2 * n * b

IsIndustrySpecific(a, n, b, m) ==
  /\ 10 * a >= 4 * n
  /\ b > 0 /\ m > 0 => a * m >= 2 * n * b

PrevalenceRatio(a, n, b, m) ==
  IF b > 0 /\ m > 0 THEN [num |-> a * m, den |-> n * b] ELSE [num |-> 1, den |-> 0]

RatioAtLeast(r, s) ==
  IF r.den = 0 THEN TRUE ELSE IF s.den = 0 THEN FALSE ELSE r.num * s.den >= s.num * r.den

\* lines 494-536 for one industry
SpecificSkillInsight(skills_by_company, industry, industry_companies, others, keys) ==
  LET A(skill) == Listing(skills_by_company, industry_companies, skill)
      B(skill) == Listing(skills_by_company, others, skill)
      Ratio(skill) == PrevalenceRatio(A(skill), Len(industry_companies), B(skill), Len(others))
      First(specific) ==
        IF specific = <<>> THEN <<>>
        ELSE << [type |-> "industry_specific_skill", industry |-> industry,
                 skill |-> specific[MinOf({i \in 1..Len(specific) :
                             \A j \in 1..Len(specific) :
                               RatioAtLeast(Ratio(specific[i]), Ratio(specific[j]))})]] >>
  IN  First(SelectSeq(keys, LAMBDA skill :
              IsIndustrySpecific(A(skill), Len(industry_companies), B(skill), Len(others))))

\* lines 470-536 for one industry; others are the companies of the other
\* industries
SkillInsights(data, industry, industry_companies, others) ==
  LET Emit(keys, top) ==
        IF keys = <<>> THEN <<>>
        ELSE << [type |-> "industry_skills", industry |-> industry, top_skills |-> top] >>
             \o SpecificSkillInsight(data.skills_by_company, industry,
                                     industry_companies, others, keys)
  IN  IF "skills_by_company" \notin DOMAIN data THEN <<>>
      ELSE Emit(MergedKeys(data.skills_by_company, industry_companies, common_skills),
                TopKeys(data.skills_by_company, industry_companies, common_skills,
                        TopIndustrySkills))

\* lines 539-560 for one industry
HubInsights(data, industry, industry_companies) ==
  LET Emit(top) ==
        IF top = <<>> THEN <<>>
        ELSE << [type |-> "industry_hubs", industry |-> industry, top_locations |-> top] >>
  IN  IF "locations_by_company" \notin DOMAIN data THEN <<>>
      ELSE Emit(TopKeys(data.locations_by_company, industry_companies, LocationUniverse,
                        TopIndustryLocations))

\* lines 420-560 for one industry
IndustryInsights_NoMinimum(data, companies_data, industry) ==
  LET Sections(industry_companies, others) ==
        LeaderInsight(data, industry, industry_companies)
        \o SkillInsights(data, industry, industry_companies, others)
        \o HubInsights(data, industry, industry_companies)
  IN  Sections(IndustryCompanies(companies_data, industry),
               FlatMap(SelectSeq(IndustryOrder(companies_data), LAMBDA ind : ind # industry),
                       LAMBDA ind : IndustryCompanies(companies_data, ind)))

IndustryInsights(data, companies_data, industry) ==
  LET Sections(industry_companies, others) ==
        IF Len(industry_companies) < MinIndustryCompanies THEN <<>>
        ELSE LeaderInsight(data, industry, industry_companies)
             \o SkillInsights(data, industry, industry_companies, others)
             \o HubInsights(data, industry, industry_companies)
  IN  Sections(IndustryCompanies(companies_data, industry),
               FlatMap(SelectSeq(IndustryOrder(companies_data), LAMBDA ind : ind # industry),
                       LAMBDA ind : IndustryCompanies(companies_data, ind)))

\* KeyError of processed_data["companies"] (line 434)
IndustryTrendsRaises(data, companies_data) ==
  /\ "hiring_velocity" \in DOMAIN data
  /\ "companies" \notin DOMAIN data
  /\ \E i \in 1..Len(IndustryOrder(companies_data)) :
       Len(IndustryCompanies(companies_data, IndustryOrder(companies_data)[i]))
         >= MinIndustryCompanies

\* lines 407-567
analyze_industry_trends(data, companies_data) ==
  IF IndustryTrendsRaises(data, companies_data) THEN EmptyDict
  ELSE [industry \in Range(IndustryOrder(companies_data)) |->
          IndustryInsights(data, companies_data, industry)]

(***************************************************************************)
(* generate_strategic_recommendations, generate_industry_recommendations   *)
(*                                                                         *)
(* An insight is a dict; one without the key type, or without a key that   *)
(* the code indexes for its type, makes the function degrade.              *)
(***************************************************************************)
TopRecommendedSkills == 3

TopSurgingCompanies == 3

TopLeadershipCompanies == 2

TopDivergences == 2

MinSharedFocus == 2

\* insight_types[type], the empty list for a type that is not a key
OfType(insights, type) == SelectSeq(insights, LAMBDA insight : insight.type = type)

\* the keys the code indexes in every insight of a type (lines 681-744)
IndexedKeys(type) ==
  CASE type = "emerging_skill"     -> {"skill"}
    [] type = "geographic_shift"   -> {"region"}
    [] type = "hiring_surge"       -> {"company"}
    [] type = "technology_focus"   -> {"category"}
    [] type = "unique_skill"       -> {"company", "skill"}
    [] type = "leadership_changes" -> {"company"}
    [] OTHER                       -> {}

\* KeyError of insight["type"] (line 674), of a key of IndexedKeys, or of the
\* keys of one of the first two divergent_strategy insights (lines 756-760)
StrategicRaises(insights) ==
  \/ \E i \in 1..Len(insights) : "type" \notin DOMAIN insights[i]
  \/ \E i \in 1..Len(insights) : ~(IndexedKeys(insights[i].type) \subseteq DOMAIN insights[i])
  \/ LET divergent == Take(OfType(insights, "divergent_strategy"), TopDivergences)
     IN  \E i \in 1..Len(divergent) :
           ~({"category", "top_company", "bottom_company"} \subseteq DOMAIN divergent[i])

\* Counter(values).most_common(1)[0]: the value counted most often, the one
\* seen first among equals, and its count
MostCommon(values) ==
  LET Count(v) == Cardinality({i \in 1..Len(values) : values[i] = v})
      Top(distinct) ==
        distinct[MinOf({i \in 1..Len(distinct) :
                          \A j \in 1..Len(distinct) : Count(distinct[i]) >= Count(distinct[j])})]
      Counted(v) == [value |-> v, count |-> Count(v)]
  IN  Counted(Top(FirstOccurrences(values)))

\* lines 680-689
SkillInvestment(insights) ==
  LET Recommend(emerging_skills) ==
        IF emerging_skills = <<>> THEN <<>>
        ELSE << [type |-> "skill_investment",
                 skills |-> Take(emerging_skills, TopRecommendedSkills),
                 priority |-> "high"] >>
      Skills(found) == Recommend([i \in 1..Len(found) |-> found[i].skill])
  IN  Skills(OfType(insights, "emerging_skill"))

\* lines 692-702
GeographicExpansion(insights) ==
  LET Recommend(top) ==
        IF top.count >= MinSharedFocus
        THEN << [type |-> "geographic_expansion", region |-> top.value,
                 priority |-> "medium"] >>
        ELSE <<>>
      Regions(found) ==
        IF found = <<>> THEN <<>>
        ELSE Recommend(MostCommon([i \in 1..Len(found) |-> found[i].region]))
  IN  Regions(OfType(insights, "geographic_shift"))

\* the insights whose companies are monitored, with the declines among them
SurgeInsights_WithDeclines(insights) ==
  SelectSeq(insights, LAMBDA insight : insight.type \in {"hiring_surge", "hiring_decline"})

SurgeInsights(insights) == OfType(insights, "hiring_surge")

\* lines 705-714
CompetitiveMonitoring(insights) ==
  LET Recommend(surging_companies) ==
        IF surging_companies = <<>> THEN <<>>
        ELSE << [type |-> "competitive_monitoring",
                 companies |-> Take(surging_companies, TopSurgingCompanies),
                 priority |-> "high"] >>
      Companies(found) == Recommend([i \in 1..Len(found) |-> found[i].company])
  IN  Companies(SurgeInsights(insights))

\* lines 717-727
TechnologyInvestment(insights) ==
  LET Recommend(top) ==
        IF top.count >= MinSharedFocus
        THEN << [type |-> "technology_investment", technology |-> top.value,
                 priority |-> "high"] >>
        ELSE <<>>
      Categories(found) ==
        IF found = <<>> THEN <<>>
        ELSE Recommend(MostCommon([i \in 1..Len(found) |-> found[i].category]))
  IN  Categories(OfType(insights, "technology_focus"))

\* the variant with a recommendation for every unique_skill insight
CompetitiveAdvantage_Each(insights) ==
  LET Each(found) ==
        [i \in 1..Len(found) |->
           [type |-> "competitive_advantage", company |-> found[i].company,
            skill |-> found[i].skill, priority |-> "medium"]]
  IN  Each(OfType(insights, "unique_skill"))

\* lines 730-740
CompetitiveAdvantage(insights) ==
  LET First(found) ==
        IF found = <<>> THEN <<>>
        ELSE << [type |-> "competitive_advantage", company |-> found[1].company,
                 skill |-> found[1].skill, priority |-> "medium"] >>
  IN  First(OfType(insights, "unique_skill"))

\* the variant that names every company with leadership changes
StrategicShift_Untruncated(insights) ==
  LET Recommend(companies) ==
        IF companies = <<>> THEN <<>>
        ELSE << [type |-> "strategic_shift", companies |-> companies,
                 priority |-> "medium"] >>
      Companies(found) == Recommend([i \in 1..Len(found) |-> found[i].company])
  IN  Companies(OfType(insights, "leadership_changes"))

\* lines 743-752
StrategicShift(insights) ==
  LET Recommend(companies) ==
        IF companies = <<>> THEN <<>>
        ELSE << [type |-> "strategic_shift",
                 companies |-> Take(companies, TopLeadershipCompanies),
                 priority |-> "medium"] >>
      Companies(found) == Recommend([i \in 1..Len(found) |-> found[i].company])
  IN  Companies(OfType(insights, "leadership_changes"))

\* lines 755-763
StrategicPositioning(insights) ==
  LET Each(found) ==
        [i \in 1..Len(found) |->
           [type |-> "strategic_positioning", category |-> found[i].category,
            companies |-> <<found[i].top_company, found[i].bottom_company>>,
            priority |-> "low"]]
  IN  Each(Take(OfType(insights, "divergent_strategy"), TopDivergences))

\* the rules taken in the order of their priority labels
StrategicRules_ByPriority(insights) ==
  SkillInvestment(insights)
  \o CompetitiveMonitoring(insights)
  \o TechnologyInvestment(insights)
  \o GeographicExpansion(insights)
  \o CompetitiveAdvantage(insights)
  \o StrategicShift(insights)
  \o StrategicPositioning(insights)

\* lines 679-763
StrategicRules(insights) ==
  SkillInvestment(insights)
  \o GeographicExpansion(insights)
  \o CompetitiveMonitoring(insights)
  \o TechnologyInvestment(insights)
  \o CompetitiveAdvantage(insights)
  \o StrategicShift(insights)
  \o StrategicPositioning(insights)

\* lines 668-770
generate_strategic_recommendations(insights) ==
  IF StrategicRaises(insights) THEN <<>> ELSE StrategicRules(insights)

\* insight.get(key) of a key whose falsy value is empty: the value when it
\* is there and truthy, None otherwise
Got(insight, key, empty) ==
  IF key \in DOMAIN insight /\ insight[key] # empty THEN Some(insight[key]) ELSE None

\* lines 596-647 for one industry: the rule of an insight type looks at the
\* first insight of the type only
IndustryRule(industry, insights, type, key, empty, Recommendation(_)) ==
  LET First(found) ==
        IF found = <<>> \/ Got(found[1], key, empty) = None THEN <<>>
        ELSE << Recommendation(found[1][key]) >>
  IN  First(OfType(insights, type))

\* lines 584-647 for one industry
IndustryRules(industry, insights) ==
  IndustryRule(industry, insights, "industry_skills", "top_skills", <<>>,
               LAMBDA top_skills :
                 [type |-> "industry_skill_investment", industry |-> industry,
                  skills |-> Take(top_skills, TopRecommendedSkills), priority |-> "high"])
  \o IndustryRule(industry, insights, "industry_hubs", "top_locations", <<>>,
               LAMBDA top_locations :
                 [type |-> "industry_location_strategy", industry |-> industry,
                  location |-> top_locations[1], priority |-> "medium"])
  \o IndustryRule(industry, insights, "industry_leader", "company", "",
               LAMBDA company :
                 [type |-> "industry_competitor_analysis", industry |-> industry,
                  company |-> company, priority |-> "high"])
  \o IndustryRule(industry, insights, "industry_specific_skill", "skill", <<>>,
               LAMBDA skill :
                 [type |-> "industry_specialization", industry |-> industry,
                  skill |-> skill, priority |-> "medium"])

\* KeyError of insight["type"] (line 590)
IndustryRecommendationsRaise(industry_insights) ==
  \E industry \in DOMAIN industry_insights :
    \E i \in 1..Len(industry_insights[industry]) :
      "type" \notin DOMAIN industry_insights[industry][i]

\* lines 581-654; the variant has a key for the industries with a
\* recommendation only
generate_industry_recommendations_NonEmptyOnly(industry_insights) ==
  IF IndustryRecommendationsRaise(industry_insights) THEN EmptyDict
  ELSE [industry \in {k \in DOMAIN industry_insights :
                        IndustryRules(k, industry_insights[k]) # <<>>} |->
          IndustryRules(industry, industry_insights[industry])]

generate_industry_recommendations(industry_insights) ==
  IF IndustryRecommendationsRaise(industry_insights) THEN EmptyDict
  ELSE [industry \in DOMAIN industry_insights |->
          IndustryRules(industry, industry_insights[industry])]

(***************************************************************************)
(* Bounds and inputs                                                       *)
(***************************************************************************)
\* the day of the first datetime.now(), and how many midnights may pass
Today0 == 100

MaxTicks == 1

\* listings of company A
MaxListings == 3

\* rows of a hiring-velocity series, the count of one row
MaxRows == 3

MaxCount == 10

\* companies and skills of a skill map
MaxCompanies == 10

NumSkills == 6

HashSeeds == {0, 1}

\* a complete listing dated today
K_AI ==
  [title |-> T_AIEngineer, location |-> L_Remote,
   requirements |-> [list |-> <<R_PythonAI>>],
   date |-> [valid |-> TRUE, day |-> Today0],
   salary_range |-> [str |-> S_80K_120K]]

\* a listing on the oldest day of the window, without salary
K_Sales ==
  [title |-> T_SalesRep, location |-> L_NewYork,
   requirements |-> [list |-> <<R_Sales>>],
   date |-> [valid |-> TRUE, day |-> Today0 - (WindowDays - 1)]]

\* a listing dated before the window, its requirements one string, its
\* salary text without a range
K_Old ==
  [title |-> T_SoftwareEngineer, location |-> L_London,
   requirements |-> [str |-> <<"A","I">>],
   date |-> [valid |-> TRUE, day |-> Today0 - 45],
   salary_range |-> [str |-> S_Competitive]]

\* a listing whose date string strptime rejects
K_BadDate ==
  [title |-> T_AIEngineer, location |-> L_Remote,
   requirements |-> [list |-> <<R_PythonAI>>],
   date |-> [valid |-> FALSE, day |-> 0]]

\* a listing without title and location
K_NoTitle ==
  [requirements |-> [list |-> <<R_PythonAI>>],
   date |-> [valid |-> TRUE, day |-> Today0]]

\* a listing whose requirements value is None, without date
K_ReqNone ==
  [title |-> T_VPSales, location |-> L_Remote,
   requirements |-> [other |-> "None"]]

\* a complete listing without date
K_Undated ==
  [title |-> T_VPSales, location |-> L_Remote,
   requirements |-> [list |-> <<R_Sales>>]]

ListingKinds == <<K_AI, K_Sales, K_Old, K_BadDate, K_NoTitle>>

RECURSIVE NonDecreasing(_, _)
\* the non-decreasing sequences of k numbers of 1..m
NonDecreasing(k, m) ==
  IF k = 0 THEN {<<>>}
  ELSE UNION {{Append(q, v) : q \in NonDecreasing(k - 1, v)} : v \in 1..m}

\* the listings value of company A: None, or a list of up to MaxListings
\* listings.  The listings of one company come grouped by kind: what the
\* functions compute of a company are counts per title, location, skill and
\* day and the salary entries, which are equal for equal kinds.
ListingsOfA ==
  {[list |-> [i \in 1..Len(q) |-> ListingKinds[q[i]]]] :
     q \in UNION {NonDecreasing(k, Len(ListingKinds)) : k \in 0..MaxListings}}
  \cup {[other |-> "None"]}

\* the listings value of company B
ListingsOfB ==
  {[list |-> <<>>], [list |-> <<K_Sales>>], [list |-> <<K_ReqNone>>],
   [list |-> <<K_Undated>>], [other |-> "None"]}

\* the input dicts: empty, company A alone, or A and then B
JobListingInputs ==
  {<< <<"A", a>> >> : a \in ListingsOfA}
  \cup {<< <<"A", a>>, <<"B", b>> >> : a \in ListingsOfA, b \in ListingsOfB}
  \cup {<<>>}

\* the AggregatedData-like arguments of analyze_hiring_trends: a series
\* with the counts a of A in its rows, a count of B in every row or in none,
\* with or without the role and location maps
TrendRows(a, withB) ==
  [i \in 1..Len(a) |-> IF withB THEN [date |-> i, A |-> a[i], B |-> 1]
                        ELSE [date |-> i, A |-> a[i]]]

TrendRoles == [A |-> (T_AIEngineer :> 3) @@ (T_VPSales :> 2), B |-> (T_SalesRep :> 1)]

TrendLocations == [A |-> (L_Remote :> 2) @@ (L_London :> 1), B |-> (L_NewYork :> 3)]

TrendData(rows, withMaps) ==
  IF withMaps
  THEN [companies |-> <<"A", "B">>, hiring_velocity |-> rows,
        roles_by_company |-> TrendRoles, locations_by_company |-> TrendLocations]
  ELSE [companies |-> <<"A", "B">>, hiring_velocity |-> rows]

\* the ways one skill is listed: by nobody, by A alone, by A and B
SkillProfiles ==
  << <<>>,
     [A |-> 1],
     [A |-> 5],
     [A |-> 6],
     [A |-> 10],
     [A |-> 3, B |-> 1],
     [A |-> 5, B |-> 1] >>

\* the arguments of identify_skill_patterns: n companies, the first NumSkills
\* skills of common_skills each listed in one of the ways of SkillProfiles
\* (the profiles in ascending order along the skills: the skills differ only
\* in their place in the iteration orders)
SkillData(n, assign) ==
  LET companies == SubSeq(CompanyOrder, 1, n)
      lists(c, i) == c \in DOMAIN SkillProfiles[assign[i]]
  IN  [companies |-> companies,
       skills_by_company |->
         [c \in Range(companies) |->
            [skill \in {common_skills[i] : i \in {j \in 1..NumSkills : lists(c, j)}} |->
               SkillProfiles[assign[CHOOSE i \in 1..NumSkills : common_skills[i] = skill]][c]]]]

\* the salary strings: two amounts, each with or without K, and other texts
Amounts ==
  { <<"0">>, <<"8","0">>, <<"9","0","0">>, <<"1","0","0","0">>, <<"1","0","0","1">>,
    <<"1",",","2","0","0">>, <<"8","0","0","0","0">>, <<"8","0",",","0","0","0">>,
    <<"1","2","0","0","0","0">>, <<"1","2","0",",","0","0","0">> }

Suffixes == { <<>>, <<"K">> }

SalaryInputs ==
  {[str |-> <<"$">> \o a \o j \o <<" ","-"," ","$">> \o b \o k] :
     a \in Amounts, b \in Amounts, j \in Suffixes, k \in Suffixes}
  \cup {[str |-> S_Competitive],
        [str |-> <<"£","8","0","K","-","€","1","2","0","K">>],
        [str |-> <<"8","0","K"," ","-"," ","1","2","0","K">>],
        [str |-> <<"$","8","0","k"," ","-"," ","$","1","2","0","k">>],
        [str |-> <<"U","p"," ","t","o"," ","$","9","0","K">>],
        [other |-> "None"]}

\* the keys of an AggregatedData-like dict that the analyzers look at
AnalysisKeys ==
  {"companies", "hiring_velocity", "roles_by_company", "locations_by_company",
   "skills_by_company", "role_distribution", "location_distribution"}

\* for every key a value that gives its sections something to report: A
\* surges, hires leaders and AI engineers, mostly remotely, and alone lists
\* Python
AnalysisValues(companies) ==
  [companies            |-> companies,
   hiring_velocity      |-> TrendRows(<<10, 14>>, TRUE),
   roles_by_company     |-> TrendRoles,
   locations_by_company |-> TrendLocations,
   skills_by_company    |-> [A |-> (common_skills[1] :> 5) @@ (common_skills[2] :> 1),
                             B |-> (common_skills[2] :> 1)],
   role_distribution    |-> << [role |-> T_AIEngineer, A |-> 3, B |-> 0],
                               [role |-> T_VPSales, A |-> 2, B |-> 0],
                               [role |-> T_SalesRep, A |-> 0, B |-> 1] >>,
   location_distribution |-> << [location |-> L_Remote, A |-> 2, B |-> 0],
                                [location |-> L_London, A |-> 1, B |-> 0],
                                [location |-> L_NewYork, A |-> 0, B |-> 3] >>]

\* the dict with the keys of keys only
AnalysisData(keys, companies) == [k \in keys |-> AnalysisValues(companies)[k]]

\* metadata of two companies of one industry
TechPair == << [name |-> "A", industry |-> "Tech"], [name |-> "B", industry |-> "Tech"] >>

\* the highest count of a company in a period of the industry inputs
MaxVelocity == 5

\* the metadata of one company: labelled Tech, labelled Retail, or without
\* the key industry
Labelled(name, label) ==
  CASE label = 1 -> [name |-> name, industry |-> "Tech"]
    [] label = 2 -> [name |-> name, industry |-> "Retail"]
    [] OTHER     -> [name |-> name]

\* a fourth record: none, a Tech company that is not in the company list, a
\* Tech record without name, a company with an empty label
ExtraRecords ==
  << <<>>,
     << [name |-> "D", industry |-> "Tech"] >>,
     << [industry |-> "Tech"] >>,
     << [name |-> "D", industry |-> ""] >> >>

IndustryMetadata(labels, extra) ==
  << Labelled("A", labels[1]), Labelled("B", labels[2]), Labelled("C", labels[3]) >>
  \o ExtraRecords[extra]

\* the data of the industry inputs: the periods with a count of each of A, B
\* and C, and skill and location maps
IndustryData(rows) ==
  [companies            |-> <<"A", "B", "C">>,
   hiring_velocity      |-> rows,
   skills_by_company    |-> [A |-> (common_skills[1] :> 3) @@ (common_skills[2] :> 1),
                             B |-> (common_skills[1] :> 1),
                             C |-> (common_skills[3] :> 2)],
   locations_by_company |-> [A |-> (L_Remote :> 2) @@ (L_London :> 1),
                             B |-> (L_NewYork :> 3),
                             C |-> (L_London :> 1)]]

\* the number of companies of the inputs on the skills of an industry
MaxMembers == 5

\* the second skill of those inputs is listed by none, by the first, by the
\* first two or by all of the companies
SecondListings == {0, 1, 2, MaxMembers}

\* the metadata of those inputs: every company labelled Tech, labelled
\* Retail, or without the key industry
MemberMetadata(labels) ==
  [i \in 1..MaxMembers |-> Labelled(CompanyOrder[i], labels[i])]

\* the data of those inputs: skills_by_company only, the first skill for the
\* companies of listing, the second for the first second companies; a
\* company that lists nothing is not a key
MemberData(listing, second) ==
  LET Skills(i) == {common_skills[1] : x \in {i} \cap listing}
                   \cup {common_skills[2] : x \in {i} \cap 1..second}
  IN  [skills_by_company |->
         [c \in {CompanyOrder[i] : i \in {j \in 1..MaxMembers : Skills(j) # {}}} |->
            LET i == CHOOSE j \in 1..MaxMembers : CompanyOrder[j] = c
            IN  [skill \in Skills(i) |-> 1]]]

\* the highest count of a company in a row of the inputs on the category
\* mixes
MaxShare == 4

\* a dict of counts without the keys of count 0
Positive(counts) == [k \in {x \in DOMAIN counts : counts[x] > 0} |-> counts[k]]

\* a row of a distribution: the counts of A and B are given, C has count c
\* when it is a company
DistributionOf(key, text, companies, a, b, c) ==
  [k \in {key} \cup Range(companies) |->
     IF k = key THEN text ELSE IF k = "A" THEN a ELSE IF k = "B" THEN b ELSE c]

\* the data of those inputs for two or three companies: a1 and a2 jobs of A
\* and b1 and b2 jobs of B in two groups, d jobs of A under a string of two
\* groups and r jobs of A under a string of no group
ShiftData(companies, a1, a2, b1, b2, d, r) ==
  [companies |-> companies,
   role_distribution |->
     << DistributionOf("role", T_SoftwareEngineer, companies, a1, b1, 1),
        DistributionOf("role", T_SalesRep, companies, a2, b2, 2),
        DistributionOf("role", T_DataEngineer, companies, d, 0, 0),
        DistributionOf("role", T_Receptionist, companies, r, 0, 0) >>,
   location_distribution |->
     << DistributionOf("location", L_RemoteUK, companies, a1, b1, 1),
        DistributionOf("location", L_NewYork, companies, a2, b2, 2),
        DistributionOf("location", L_Remote, companies, d, 0, 0),
        DistributionOf("location", L_Berlin, companies, r, 0, 0) >>,
   roles_by_company |->
     [A |-> Positive((T_AICloudEngineer :> a1) @@ (T_DataEngineer :> a2)
                     @@ (T_Receptionist :> r)),
      B |-> Positive((T_AIEngineer :> b1) @@ (T_SalesRep :> b2))],
   locations_by_company |->
     [A |-> Positive((L_Sydney :> a1) @@ (L_London :> a2) @@ (L_Berlin :> r)),
      B |-> Positive((L_NewYork :> b1) @@ (L_RemoteUK :> b2))]]

\* the ways the data given to an analyzer are malformed: not at all, a
\* locations_by_company that is None, a last row of location_distribution
\* without the key location, both
Faults == 0..3

\* the data of all keys for the companies A and B, malformed in the way
\* fault
FaultyData(fault) ==
  LET good == AnalysisValues(<<"A", "B">>)
  IN  [k \in AnalysisKeys |->
         IF k = "locations_by_company" /\ fault \in {1, 3} THEN [other |-> "None"]
         ELSE IF k = "location_distribution" /\ fault \in {2, 3}
              THEN Append(good[k], [A |-> 1, B |-> 0])
              ELSE good[k]]

\* the longest insight list given to the recommendation generators
MaxInsights == 4

\* the insights given to generate_strategic_recommendations: one of each
\* recognized type, one of a type without rule, one without the key type,
\* one emerging skill without the key skill and one hiring surge without the
\* key company
InsightKinds ==
  << "emerging_skill", "geographic_shift", "hiring_surge", "technology_focus",
     "unique_skill", "leadership_changes", "divergent_strategy", "hiring_decline",
     "untyped", "unskilled", "unnamed" >>

\* the insight of a kind at place i of the list: the company and the skill
\* are those of the place, the region and the category of the first place
\* differ from those of the others
InsightOf(kind, i) ==
  CASE kind = "emerging_skill" ->
         [type |-> kind, skill |-> common_skills[i]]
    [] kind = "geographic_shift" ->
         [type |-> kind, company |-> CompanyOrder[i],
          region |-> IF i = 1 THEN "Asia" ELSE "Europe"]
    [] kind = "hiring_surge" ->
         [type |-> kind, company |-> CompanyOrder[i]]
    [] kind = "technology_focus" ->
         [type |-> kind, company |-> CompanyOrder[i],
          category |-> IF i = 1 THEN "Cloud" ELSE "AI/ML"]
    [] kind = "unique_skill" ->
         [type |-> kind, company |-> CompanyOrder[i], skill |-> common_skills[i]]
    [] kind = "leadership_changes" ->
         [type |-> kind, company |-> CompanyOrder[i]]
    [] kind = "divergent_strategy" ->
         [type |-> kind, category |-> role_categories[i].name,
          top_company |-> CompanyOrder[i], bottom_company |-> CompanyOrder[i + 1]]
    [] kind = "hiring_decline" ->
         [type |-> kind, company |-> CompanyOrder[i]]
    [] kind = "untyped" ->
         [company |-> CompanyOrder[i]]
    [] kind = "unnamed" ->
         [type |-> "hiring_surge"]
    [] OTHER ->
         [type |-> "emerging_skill"]

InsightList(kinds) == [i \in 1..Len(kinds) |-> InsightOf(InsightKinds[kinds[i]], i)]

\* the insights of one industry given to generate_industry_recommendations
IndustryInsightKinds ==
  << "industry_skills", "industry_hubs", "industry_leader", "industry_specific_skill",
     "industry_skills_empty", "industry_outlook", "untyped" >>

IndustryInsightOf(kind, i) ==
  CASE kind = "industry_skills" ->
         [type |-> kind, industry |-> "Tech",
          top_skills |-> SubSeq(common_skills, i, i + 3)]
    [] kind = "industry_hubs" ->
         [type |-> kind, industry |-> "Tech",
          top_locations |-> SubSeq(LocationUniverse, 1 + (i % 2), 3)]
    [] kind = "industry_leader" ->
         [type |-> kind, industry |-> "Tech", company |-> CompanyOrder[i]]
    [] kind = "industry_specific_skill" ->
         [type |-> kind, industry |-> "Tech", skill |-> common_skills[i]]
    [] kind = "industry_skills_empty" ->
         [type |-> "industry_skills", industry |-> "Tech", top_skills |-> <<>>]
    [] kind = "industry_outlook" ->
         [type |-> kind, industry |-> "Tech"]
    [] OTHER ->
         [industry |-> "Tech"]

IndustryInsightList(kinds) ==
  [i \in 1..Len(kinds) |-> IndustryInsightOf(IndustryInsightKinds[kinds[i]], i)]

\* the insights of a second industry
RetailInsights ==
  << [type |-> "industry_leader", industry |-> "Retail", company |-> "C"],
     [type |-> "industry_hubs", industry |-> "Retail", top_locations |-> <<L_NewYork>>] >>

(***************************************************************************)
(* State                                                                   *)
(***************************************************************************)
VARIABLES
  pc,             \* the call the caller makes next
  run,            \* 1 in the first run of the pipeline, 2 in the second
  today,          \* the day datetime.now() gives
  hash_seed,      \* the string hash seed of the interpreter process
  job_listings,   \* the argument of process_job_data
  now_seen,       \* the days datetime.now() gave in the last process_job_data
  processed_data, \* the result of process_job_data
  aggregated,     \* the result of aggregate_job_data, the argument of the analyzers
  insights,       \* the result of the analyzer called last
  first_run,      \* the results of the first run, kept by the caller
  salary_text,    \* the argument of extract_salary_range
  salary_result,  \* the result of extract_salary_range
  called,         \* the function called last
  companies_data, \* the metadata records, the second argument of analyze_industry_trends
  recommendations,\* the result of the recommendation generator called last
  shared_maps     \* the (key, company) whose map in aggregated is the very
                  \* object processed_data holds

vars == <<pc, run, today, hash_seed, job_listings, now_seen, processed_data,
          aggregated, insights, first_run, salary_text, salary_result,
          called, companies_data, recommendations, shared_maps>>

\* a result that no call has produced yet
NotYet == [pending |-> TRUE]

Idle ==
  /\ run = 1
  /\ today = Today0
  /\ now_seen = <<>>
  /\ processed_data = NotYet
  /\ insights = NotYet
  /\ first_run = NotYet
  /\ salary_result = NotYet
  /\ called = "none"
  /\ recommendations = NotYet
  /\ shared_maps = {}

\* the caller holds raw listings and runs the pipeline on them
Init ==
  /\ Idle
  /\ pc = "start"
  /\ hash_seed \in HashSeeds
  /\ job_listings \in JobListingInputs
  /\ aggregated = NotYet
  /\ salary_text = [other |-> "None"]
  /\ companies_data = <<>>

\* the caller holds an AggregatedData-like dict with a company list
InitTrends ==
  /\ Idle
  /\ pc = "aggregated"
  /\ hash_seed = 0
  /\ job_listings = <<>>
  /\ \E n \in 0..MaxRows, withB \in BOOLEAN, withMaps \in BOOLEAN :
       \E a \in [1..n -> 0..MaxCount] :
         aggregated = TrendData(TrendRows(a, withB), withMaps)
  /\ salary_text = [other |-> "None"]
  /\ companies_data = <<>>

InitSkills ==
  /\ Idle
  /\ pc = "skills"
  /\ hash_seed \in HashSeeds
  /\ job_listings = <<>>
  /\ \E n \in 1..MaxCompanies :
       \E assign \in NonDecreasing(NumSkills, Len(SkillProfiles)) :
         aggregated = SkillData(n, assign)
  /\ salary_text = [other |-> "None"]
  /\ companies_data = <<>>

InitSalary ==
  /\ Idle
  /\ pc = "salary"
  /\ hash_seed = 0
  /\ job_listings = <<>>
  /\ aggregated = NotYet
  /\ salary_text \in SalaryInputs
  /\ companies_data = <<>>

\* the caller holds a dict with some of the keys an analyzer looks at, and
\* calls one of the four analyzers on it
InitAnalysis ==
  /\ Idle
  /\ pc \in {"aggregated", "skills", "shifts", "industry"}
  /\ hash_seed = 0
  /\ job_listings = <<>>
  /\ \E keys \in SUBSET AnalysisKeys, n \in {0, 2} :
       aggregated = AnalysisData(keys, SubSeq(CompanyOrder, 1, n))
  /\ salary_text = [other |-> "None"]
  /\ companies_data \in {<<>>, TechPair}

\* the caller holds the data of three companies and their metadata
InitIndustry ==
  /\ Idle
  /\ pc = "industry"
  /\ hash_seed = 0
  /\ job_listings = <<>>
  /\ \E a \in 0..MaxVelocity, b \in 0..MaxVelocity, c \in 0..MaxVelocity :
       \E periods \in 1..2 :
         aggregated = IndustryData(SubSeq(<< [date |-> 1, A |-> a, B |-> b, C |-> c],
                                            [date |-> 2, A |-> 1, B |-> 0, C |-> 2] >>,
                                          1, periods))
  /\ salary_text = [other |-> "None"]
  /\ \E labels \in [1..3 -> 1..3], extra \in 1..Len(ExtraRecords) :
       companies_data = IndustryMetadata(labels, extra)

\* the caller holds the skills of five companies and their metadata
InitSpecific ==
  /\ Idle
  /\ pc = "industry"
  /\ hash_seed = 0
  /\ job_listings = <<>>
  /\ \E listing \in SUBSET (1..MaxMembers), second \in SecondListings :
       aggregated = MemberData(listing, second)
  /\ salary_text = [other |-> "None"]
  /\ \E labels \in [1..MaxMembers -> 1..3] : companies_data = MemberMetadata(labels)

\* the caller holds the roles and locations of two or three companies and
\* analyzes the hiring trends or the market shifts
InitShifts ==
  /\ Idle
  /\ pc \in {"aggregated", "shifts"}
  /\ hash_seed = 0
  /\ job_listings = <<>>
  /\ \E a1 \in 0..MaxShare, a2 \in 0..MaxShare, b1 \in 0..MaxShare, b2 \in {0, 1} :
       \E d \in {0, 1}, r \in {0, MaxShare}, n \in {2, 3} :
         aggregated = ShiftData(SubSeq(CompanyOrder, 1, n), a1, a2, b1, b2, d, r)
  /\ salary_text = [other |-> "None"]
  /\ companies_data = <<>>

\* the caller holds data of all keys, possibly malformed, and calls one of
\* the four analyzers on them
InitFaults ==
  /\ Idle
  /\ pc \in {"aggregated", "skills", "shifts", "industry"}
  /\ hash_seed = 0
  /\ job_listings = <<>>
  /\ \E fault \in Faults : aggregated = FaultyData(fault)
  /\ salary_text = [other |-> "None"]
  /\ companies_data \in {<<>>, TechPair}

\* the caller holds a list of insights, or the insights of one or two
\* industries
InitRecs ==
  /\ run = 1
  /\ today = Today0
  /\ now_seen = <<>>
  /\ processed_data = NotYet
  /\ first_run = NotYet
  /\ salary_result = NotYet
  /\ called = "none"
  /\ recommendations = NotYet
  /\ shared_maps = {}
  /\ hash_seed = 0
  /\ job_listings = <<>>
  /\ aggregated = NotYet
  /\ salary_text = [other |-> "None"]
  /\ companies_data = <<>>
  /\ \E n \in 0..MaxInsights :
       \/ /\ pc = "insights"
          /\ \E kinds \in [1..n -> 1..Len(InsightKinds)] :
               insights = InsightList(kinds)
       \/ /\ pc = "industry_insights"
          /\ \E kinds \in [1..n -> 1..Len(IndustryInsightKinds)], retail \in BOOLEAN :
               insights = IF retail
                          THEN [industry \in {"Tech", "Retail"} |->
                                  IF industry = "Tech" THEN IndustryInsightList(kinds)
                                  ELSE RetailInsights]
                          ELSE [industry \in {"Tech"} |-> IndustryInsightList(kinds)]

(***************************************************************************)
(* Actions                                                                 *)
(***************************************************************************)
\* midnight passes between two calls
Tick ==
  /\ pc = "start"
  /\ today < Today0 + MaxTicks
  /\ today' = today + 1
  /\ UNCHANGED <<pc, run, hash_seed, job_listings, now_seen, processed_data,
                 aggregated, insights, first_run, salary_text, salary_result,
                 called, companies_data, recommendations, shared_maps>>

\* the days datetime.now() can give in the iterations of n companies
NowChoices(n) ==
  {now \in [1..n -> today..(Today0 + MaxTicks)] :
     /\ n > 0 => now[1] = today
     /\ \A i \in 1..(n - 1) : now[i] <= now[i + 1]}

\* process_job_data consuming the listings of the first company it is given
ProcessJobData_ConsumesInput ==
  /\ pc = "start"
  /\ \E now \in NowChoices(Len(job_listings)) :
       /\ processed_data' = process_job_data(job_listings, now, HashOrder(hash_seed))
       /\ now_seen' = now
       /\ today' = IF now = <<>> THEN today ELSE now[Len(now)]
  /\ pc' = IF "raised" \in DOMAIN processed_data' THEN "crashed" ELSE "processed"
  /\ job_listings' = IF job_listings = <<>> \/ "list" \notin DOMAIN job_listings[1][2]
                     THEN job_listings
                     ELSE [job_listings EXCEPT ![1][2] = [list |-> <<>>]]
  /\ called' = "process_job_data"
  /\ UNCHANGED <<run, hash_seed, aggregated, insights, first_run,
                 salary_text, salary_result,
                 companies_data, recommendations, shared_maps>>

ProcessJobData ==
  /\ pc = "start"
  /\ \E now \in NowChoices(Len(job_listings)) :
       /\ processed_data' = process_job_data(job_listings, now, HashOrder(hash_seed))
       /\ now_seen' = now
       /\ today' = IF now = <<>> THEN today ELSE now[Len(now)]
  /\ pc' = IF "raised" \in DOMAIN processed_data' THEN "crashed" ELSE "processed"
  /\ called' = "process_job_data"
  /\ UNCHANGED <<run, hash_seed, job_listings, aggregated, insights, first_run,
                 salary_text, salary_result,
                 companies_data, recommendations, shared_maps>>

\* the variant of AggregateJobData whose function moves the skill maps out
\* of its argument
AggregateJobData_MovesMaps ==
  /\ pc = "processed"
  /\ aggregated' = aggregate_job_data(processed_data)
  /\ processed_data' = [processed_data EXCEPT !.skills = EmptyDict]
  /\ pc' = "aggregated"
  /\ called' = "aggregate_job_data"
  /\ shared_maps' = SharedMaps(processed_data)
  /\ UNCHANGED <<run, today, hash_seed, job_listings, now_seen,
                 insights, first_run, salary_text, salary_result,
                 companies_data, recommendations>>

AggregateJobData ==
  /\ pc = "processed"
  /\ aggregated' = aggregate_job_data(processed_data)
  /\ pc' = "aggregated"
  /\ called' = "aggregate_job_data"
  /\ shared_maps' = SharedMaps(processed_data)
  /\ UNCHANGED <<run, today, hash_seed, job_listings, now_seen, processed_data,
                 insights, first_run, salary_text, salary_result,
                 companies_data, recommendations>>

AnalyzeHiringTrends ==
  /\ pc = "aggregated"
  /\ insights' = analyze_hiring_trends(aggregated)
  /\ pc' = "analyzed"
  /\ called' = "analyze_hiring_trends"
  /\ UNCHANGED <<run, today, hash_seed, job_listings, now_seen, processed_data,
                 aggregated, first_run, salary_text, salary_result,
                 companies_data, recommendations, shared_maps>>

\* the caller keeps the results and runs the pipeline again on the same input
Rerun ==
  /\ pc = "analyzed"
  /\ run = 1
  /\ first_run' = [now_seen |-> now_seen, processed_data |-> processed_data,
                   aggregated |-> aggregated, insights |-> insights]
  /\ run' = 2
  /\ pc' = "start"
  /\ now_seen' = <<>>
  /\ processed_data' = NotYet
  /\ aggregated' = NotYet
  /\ insights' = NotYet
  /\ shared_maps' = {}
  /\ UNCHANGED <<today, hash_seed, job_listings, salary_text, salary_result,
                 called, companies_data, recommendations>>

\* the variant of IdentifySkillPatterns whose function has no handler: the
\* exception reaches the caller
IdentifySkillPatterns_Propagates ==
  /\ pc = "skills"
  /\ insights' = IF SkillPatternsRaises(aggregated) THEN NotYet
                 ELSE identify_skill_patterns(aggregated, HashOrder(hash_seed))
  /\ pc' = IF SkillPatternsRaises(aggregated) THEN "crashed" ELSE "analyzed"
  /\ called' = "identify_skill_patterns"
  /\ UNCHANGED <<run, today, hash_seed, job_listings, now_seen, processed_data,
                 aggregated, first_run, salary_text, salary_result,
                 companies_data, recommendations, shared_maps>>

IdentifySkillPatterns ==
  /\ pc = "skills"
  /\ insights' = identify_skill_patterns(aggregated, HashOrder(hash_seed))
  /\ pc' = "analyzed"
  /\ called' = "identify_skill_patterns"
  /\ UNCHANGED <<run, today, hash_seed, job_listings, now_seen, processed_data,
                 aggregated, first_run, salary_text, salary_result,
                 companies_data, recommendations, shared_maps>>

ExtractSalaryRange ==
  /\ pc = "salary"
  /\ salary_result' = extract_salary_range(salary_text)
  /\ pc' = "done"
  /\ called' = "extract_salary_range"
  /\ UNCHANGED <<run, today, hash_seed, job_listings, now_seen, processed_data,
                 aggregated, insights, first_run, salary_text,
                 companies_data, recommendations, shared_maps>>

\* the caller changes a count in a per-company map of the aggregated data;
\* the map is the object that processed_data holds when aggregate_job_data
\* stored it without copying
CallerUpdates ==
  /\ pc = "aggregated"
  /\ called = "aggregate_job_data"
  /\ \E key \in {"skills_by_company", "locations_by_company", "roles_by_company"} :
       \E company \in DOMAIN aggregated[key] :
         \E item \in DOMAIN aggregated[key][company] :
           /\ aggregated' = [aggregated EXCEPT ![key][company][item] = @ + 1]
           /\ processed_data' =
                IF <<key, company>> \in shared_maps
                THEN [processed_data EXCEPT ![ProcessedKey(key)][company][item] = @ + 1]
                ELSE processed_data
  /\ pc' = "updated"
  /\ UNCHANGED <<run, today, hash_seed, job_listings, now_seen, insights, first_run,
                 salary_text, salary_result, called, companies_data, recommendations,
                 shared_maps>>

DetectMarketShifts ==
  /\ pc = "shifts"
  /\ insights' = detect_market_shifts(aggregated)
  /\ pc' = "analyzed"
  /\ called' = "detect_market_shifts"
  /\ UNCHANGED <<run, today, hash_seed, job_listings, now_seen, processed_data,
                 aggregated, first_run, salary_text, salary_result,
                 companies_data, recommendations, shared_maps>>

AnalyzeIndustryTrends ==
  /\ pc = "industry"
  /\ insights' = analyze_industry_trends(aggregated, companies_data)
  /\ pc' = "analyzed"
  /\ called' = "analyze_industry_trends"
  /\ UNCHANGED <<run, today, hash_seed, job_listings, now_seen, processed_data,
                 aggregated, first_run, salary_text, salary_result,
                 companies_data, recommendations, shared_maps>>

GenerateStrategicRecommendations ==
  /\ \/ pc = "insights"
     \/ /\ pc = "analyzed"
        /\ called \in {"analyze_hiring_trends", "identify_skill_patterns",
                       "detect_market_shifts"}
  /\ recommendations' = generate_strategic_recommendations(insights)
  /\ pc' = "recommended"
  /\ called' = "generate_strategic_recommendations"
  /\ UNCHANGED <<run, today, hash_seed, job_listings, now_seen, processed_data,
                 aggregated, insights, first_run, salary_text, salary_result,
                 companies_data, shared_maps>>

GenerateIndustryRecommendations ==
  /\ \/ pc = "industry_insights"
     \/ pc = "analyzed" /\ called = "analyze_industry_trends"
  /\ recommendations' = generate_industry_recommendations(insights)
  /\ pc' = "recommended"
  /\ called' = "generate_industry_recommendations"
  /\ UNCHANGED <<run, today, hash_seed, job_listings, now_seen, processed_data,
                 aggregated, insights, first_run, salary_text, salary_result,
                 companies_data, shared_maps>>

(***************************************************************************)
(* Properties                                                              *)
(***************************************************************************)
\* C1: end to end, for listings of companies A and B that all process
\* without an exception, at least 3 of A's titles containing an AI/ML keyword
\* and all of B's titled "Sales Rep", analyze_hiring_trends on the output of
\* aggregate_job_data(process_job_data(listings)) returns a technology_focus
\* insight of category AI/ML for A and no technology_focus insight for B.
C1_EndToEnd ==
  LET wellFormed(i) ==
        /\ "list" \in DOMAIN job_listings[i][2]
        /\ \A k \in 1..Len(job_listings[i][2].list) : ~JobRaises(job_listings[i][2].list[k])
      jobsA == job_listings[1][2].list
      jobsB == job_listings[2][2].list
  IN  (/\ pc = "analyzed"
       /\ Len(job_listings) = 2
       /\ wellFormed(1) /\ wellFormed(2)
       /\ Cardinality({k \in 1..Len(jobsA) :
                         in_tech_category(tech_categories[1], jobsA[k].title)}) >= 3
       /\ \A k \in 1..Len(jobsB) : jobsB[k].title = T_SalesRep)
      => /\ \E i \in 1..Len(insights) :
              /\ insights[i].type = "technology_focus"
              /\ insights[i].company = "A"
              /\ insights[i].category = "AI/ML"
         /\ \A i \in 1..Len(insights) :
              ~(insights[i].type = "technology_focus" /\ insights[i].company = "B")

\* C2: the location_distribution and role_distribution tables of
\* aggregate_job_data(process_job_data(listings)) are rectangular: every row
\* has a key for every company of the company list, 0 where the company
\* lacks the location or role, and the column of a company sums to its entry
\* in total_jobs_by_company.
C2_Rectangular ==
  LET companies == Range(processed_data.companies)
      column(table, c) == SumSeq([i \in 1..Len(table) |-> table[i][c]])
      rectangular(table, label, by_company) ==
        \A i \in 1..Len(table) :
          /\ DOMAIN table[i] = {label} \cup companies
          /\ \A c \in companies :
               table[i][c] = IF table[i][label] \in DOMAIN by_company[c]
                             THEN by_company[c][table[i][label]] ELSE 0
  IN  (pc \in {"aggregated", "analyzed"})
      => /\ rectangular(aggregated.location_distribution, "location",
                        aggregated.locations_by_company)
         /\ rectangular(aggregated.role_distribution, "role",
                        aggregated.roles_by_company)
         /\ "all_roles" \in DOMAIN processed_data /\ companies # {}
              => DOMAIN aggregated.total_jobs_by_company = companies
         /\ \A c \in DOMAIN aggregated.total_jobs_by_company :
              /\ column(aggregated.location_distribution, c)
                   = aggregated.total_jobs_by_company[c]
              /\ column(aggregated.role_distribution, c)
                   = aggregated.total_jobs_by_company[c]

\* C2 witness: two companies aggregated, a location row zero-filled for B
C2_Witness ==
  /\ pc = "aggregated"
  /\ Len(processed_data.companies) = 2
  /\ \E i \in 1..Len(aggregated.location_distribution) :
       /\ aggregated.location_distribution[i]["A"] > 0
       /\ aggregated.location_distribution[i]["B"] = 0
  /\ aggregated.total_jobs_by_company["A"] = 3
  /\ aggregated.total_jobs_by_company["B"] = 1

\* C3: process_job_data never propagates an exception: whenever processing
\* raises (a listing without title or location, requirements that are not a
\* list, a company whose listings value is None) it returns the skeleton,
\* with all input companies and empty derived maps.
C3_NeverPropagates ==
  processed_data # NotYet
  => /\ "raised" \notin DOMAIN processed_data
     /\ (\E i \in 1..Len(job_listings) : CompanyRaises(job_listings[i][2]))
          => /\ processed_data.companies = CompanyNames(job_listings)
             /\ Len(processed_data.job_counts) = Len(job_listings)
             /\ processed_data.roles = EmptyDict
             /\ processed_data.locations = EmptyDict
             /\ processed_data.skills = EmptyDict
             /\ processed_data.time_series = EmptyDict
             /\ processed_data.salary_ranges = EmptyDict

\* C4: a listing with a malformed date string is non-fatal: when nothing else
\* is wrong with the input, the result of process_job_data still holds the
\* title and location of every listing of every company and a time series
\* for every company, the malformed listing being absent from the histogram
\* only.
C4_MalformedDateNonFatal ==
  LET jobs(i) == job_listings[i][2].list
      onlyDate(job) ==
        /\ "title" \in DOMAIN job
        /\ "location" \in DOMAIN job
        /\ ~("requirements" \in DOMAIN job /\ "other" \in DOMAIN job.requirements)
  IN  (/\ processed_data # NotYet
       /\ \A i \in 1..Len(job_listings) :
            /\ "list" \in DOMAIN job_listings[i][2]
            /\ \A k \in 1..Len(jobs(i)) : onlyDate(jobs(i)[k])
       /\ \E i \in 1..Len(job_listings) : \E k \in 1..Len(jobs(i)) :
            "date" \in DOMAIN jobs(i)[k] /\ ~jobs(i)[k].date.valid)
      => \A i \in 1..Len(job_listings) :
           LET c == job_listings[i][1] IN
           /\ c \in DOMAIN processed_data.roles
           /\ c \in DOMAIN processed_data.locations
           /\ c \in DOMAIN processed_data.time_series
           /\ \A k \in 1..Len(jobs(i)) :
                /\ jobs(i)[k].title \in DOMAIN processed_data.roles[c]
                /\ jobs(i)[k].location \in DOMAIN processed_data.locations[c]
           /\ SumOver(processed_data.time_series[c], DOMAIN processed_data.time_series[c])
                = Cardinality({k \in 1..Len(jobs(i)) :
                                 /\ "date" \in DOMAIN jobs(i)[k]
                                 /\ jobs(i)[k].date.valid
                                 /\ jobs(i)[k].date.day \in DOMAIN processed_data.time_series[c]})

\* C5 as stated: for every company in the company list of every result of
\* process_job_data the time_series map has exactly 30 entries.
C5_ThirtyEntriesAlways ==
  (processed_data # NotYet /\ "raised" \notin DOMAIN processed_data)
  => \A i \in 1..Len(processed_data.companies) :
       /\ processed_data.companies[i] \in DOMAIN processed_data.time_series
       /\ Cardinality(DOMAIN processed_data.time_series[processed_data.companies[i]]) = 30

\* C5 amended: in every result of process_job_data that is not the skeleton,
\* the time_series of every company has exactly 30 entries, the day of that
\* company's datetime.now() and the 29 days before it, each counting the
\* listings dated that day (0 without listings); a listing dated outside the
\* window is in no bucket but is counted in job_counts, roles and locations.
C5_ThirtyEntries ==
  (processed_data # NotYet /\ "all_roles" \in DOMAIN processed_data)
  => \A i \in 1..Len(processed_data.companies) :
       LET c    == processed_data.companies[i]
           jobs == job_listings[i][2].list
           ts   == processed_data.time_series[c]
       IN  /\ Cardinality(DOMAIN ts) = 30
           /\ DOMAIN ts = {now_seen[i] - d : d \in 0..29}
           /\ \A d \in DOMAIN ts :
                ts[d] = Cardinality({k \in 1..Len(jobs) :
                                       "date" \in DOMAIN jobs[k] /\ jobs[k].date.day = d})
           /\ processed_data.job_counts[i] = Len(jobs)
           /\ SumOver(processed_data.roles[c], DOMAIN processed_data.roles[c]) = Len(jobs)
           /\ SumOver(processed_data.locations[c], DOMAIN processed_data.locations[c]) = Len(jobs)
           /\ \A k \in 1..Len(jobs) :
                /\ jobs[k].title \in DOMAIN processed_data.roles[c]
                /\ jobs[k].location \in DOMAIN processed_data.locations[c]

\* C5 witness: a processed company with a listing inside the window next to
\* one dated before it
C5_Witness ==
  /\ pc = "processed"
  /\ "all_roles" \in DOMAIN processed_data
  /\ Len(job_listings) >= 1
  /\ job_listings[1][2].list = <<K_AI, K_Old>>
  /\ SumOver(processed_data.time_series["A"], DOMAIN processed_data.time_series["A"]) = 1
  /\ processed_data.job_counts[1] = 2

\* C6: in analyze_hiring_trends, a company with earlier-half sum E and
\* recent-half sum R gets neither a hiring_surge nor a hiring_decline when
\* E = 0, exactly a hiring_surge when E > 0 and (R - E) / E * 100 > 30,
\* exactly a hiring_decline when E > 0 and that value is < -30, and neither
\* otherwise (E = 10, R = 14: surge; E = 10, R = 13: nothing).
C6_SurgeThreshold ==
  LET rows == aggregated.hiring_velocity
      half == Len(rows) \div 2
      sum(c, from, to) ==
        SumSeq([i \in 1..(to - from + 1) |->
                  IF c \in DOMAIN rows[from + i - 1] THEN rows[from + i - 1][c] ELSE 0])
      E(c) == sum(c, 1, half)
      R(c) == sum(c, half + 1, Len(rows))
      emitted(type, c) ==
        Cardinality({i \in 1..Len(insights) :
                       insights[i].type = type /\ insights[i].company = c})
  IN  pc = "analyzed"
      => \A c \in Range(aggregated.companies) :
           /\ emitted("hiring_surge", c)
                = IF E(c) > 0 /\ 100 * (R(c) - E(c)) > 30 * E(c) THEN 1 ELSE 0
           /\ emitted("hiring_decline", c)
                = IF E(c) > 0 /\ 100 * (R(c) - E(c)) < (0 - 30) * E(c) THEN 1 ELSE 0
           /\ (E(c) = 10 /\ R(c) = 13)
                => emitted("hiring_surge", c) + emitted("hiring_decline", c) = 0

\* C6 witness: E = 10 and R = 14 for company A, and its surge is reported
C6_Witness ==
  /\ pc = "analyzed"
  /\ Len(aggregated.hiring_velocity) = 3
  /\ aggregated.hiring_velocity[1]["A"] = 10
  /\ aggregated.hiring_velocity[2]["A"] + aggregated.hiring_velocity[3]["A"] = 14
  /\ \E i \in 1..Len(insights) :
       insights[i].type = "hiring_surge" /\ insights[i].company = "A"

\* C7: identify_skill_patterns emits an emerging_skill insight only for a
\* skill whose prevalence is in [0.10, 0.40] and whose total demand is at
\* least 5; of the qualifying skills the (at most) 5 with the highest demand
\* are emitted, in descending order of demand.
C7_EmergingSkills ==
  LET sbc      == aggregated.skills_by_company
      n        == Len(aggregated.companies)
      k(s)     == Cardinality({c \in DOMAIN sbc : s \in DOMAIN sbc[c]})
      demand(s) == SumOver([c \in DOMAIN sbc |-> IF s \in DOMAIN sbc[c] THEN sbc[c][s] ELSE 0],
                           DOMAIN sbc)
      Q        == {s \in UNION {DOMAIN sbc[c] : c \in DOMAIN sbc} :
                     10 * k(s) >= n /\ 10 * k(s) <= 4 * n /\ demand(s) >= 5}
      em       == SelectSeq(insights, LAMBDA x : x.type = "emerging_skill")
      emitted  == {em[i].skill : i \in 1..Len(em)}
  IN  pc = "analyzed"
      => /\ emitted \subseteq Q
         /\ Len(em) = (IF Cardinality(Q) < 5 THEN Cardinality(Q) ELSE 5)
         /\ Cardinality(emitted) = Len(em)
         /\ \A s \in emitted : \A q \in Q \ emitted : demand(s) >= demand(q)
         /\ \A i \in 1..Len(em) :
              /\ em[i].demand = demand(em[i].skill)
              /\ \A j \in (i + 1)..Len(em) : em[i].demand >= em[j].demand
         /\ \A s \in emitted : ~(k(s) = 2 /\ n = 10 /\ demand(s) = 4)

\* C7 witness: ten companies, six qualifying skills of which five are
\* emitted, among them a skill in 2 of the 10 companies with demand 6
C7_Witness ==
  /\ pc = "analyzed"
  /\ Len(aggregated.companies) = 10
  /\ Cardinality({s \in AllSkills(aggregated.skills_by_company) :
                    IsEmerging(aggregated, s)}) = 6
  /\ Len(SelectSeq(insights, LAMBDA x : x.type = "emerging_skill")) = 5
  /\ \E i \in 1..Len(insights) :
       /\ insights[i].type = "emerging_skill"
       /\ insights[i].prevalence = [num |-> 2, den |-> 10]
       /\ insights[i].demand = 6

\* C8: identify_skill_patterns emits a unique_skill insight for (A, s) only
\* if s is in A's skill map with count >= 2 and in no other company's skill
\* map; a skill that a second company lists, even once, gets no unique_skill
\* insight for any company; per company the (at most) 3 qualifying skills
\* with the highest counts are emitted.
C8_UniqueSkills ==
  LET sbc  == aggregated.skills_by_company
      un   == SelectSeq(insights, LAMBDA x : x.type = "unique_skill")
      U(c) == {s \in DOMAIN sbc[c] :
                 /\ sbc[c][s] >= 2
                 /\ \A o \in DOMAIN sbc \ {c} : s \notin DOMAIN sbc[o]}
      of(c) == {un[i].skill : i \in {j \in 1..Len(un) : un[j].company = c}}
  IN  pc = "analyzed"
      => /\ \A i \in 1..Len(un) :
              /\ un[i].company \in DOMAIN sbc
              /\ un[i].skill \in U(un[i].company)
              /\ un[i].count = sbc[un[i].company][un[i].skill]
              /\ \A j \in 1..Len(un) :
                   (un[j].company = un[i].company /\ un[j].skill = un[i].skill) => j = i
         /\ \A c \in Range(aggregated.companies) :
              /\ Cardinality(of(c)) = (IF Cardinality(U(c)) < 3 THEN Cardinality(U(c)) ELSE 3)
              /\ \A s \in of(c) : \A q \in U(c) \ of(c) : sbc[c][s] >= sbc[c][q]
         /\ \A s \in UNION {DOMAIN sbc[c] : c \in DOMAIN sbc} :
              Cardinality({c \in DOMAIN sbc : s \in DOMAIN sbc[c]}) >= 2
                => \A i \in 1..Len(un) : un[i].skill # s

\* C8 witness: A has four skills of its own with count >= 2, three of them
\* are reported, and a skill that B lists once is not
C8_Witness ==
  /\ pc = "analyzed"
  /\ Cardinality({s \in DOMAIN aggregated.skills_by_company["A"] :
                    IsUniqueTo(aggregated.skills_by_company, "A", s)}) = 4
  /\ Len(SelectSeq(insights, LAMBDA x : x.type = "unique_skill")) = 3
  /\ \E s \in DOMAIN aggregated.skills_by_company["A"] :
       /\ "B" \in DOMAIN aggregated.skills_by_company
       /\ s \in DOMAIN aggregated.skills_by_company["B"]
       /\ aggregated.skills_by_company["B"][s] = 1

C10_BothBoundsInThousands ==
  LET text == salary_text.str
      amountAfter(p) ==
        LET run_ == CHOOSE m \in 0..Len(text) :
                      /\ \A j \in 0..(m - 1) : IsDigit(CharAt(text, p + j)) \/ CharAt(text, p + j) = ","
                      /\ ~(IsDigit(CharAt(text, p + m)) \/ CharAt(text, p + m) = ",")
        IN  DigitsValue(SubSeq(text, p, p + run_ - 1))
      marks == {p \in 1..Len(text) : IsCurrency(text[p])}
      first == amountAfter(MinOf(marks) + 1)
      second == amountAfter(MaxOf(marks) + 1)
  IN  pc = "done"
      => /\ "str" \notin DOMAIN salary_text => salary_result = NoneNone
         /\ "str" \in DOMAIN salary_text =>
              /\ ~re_search(text).matched => salary_result = NoneNone
              /\ (/\ re_search(text).matched
                  /\ ~Contains(<<"K">>, text)
                  /\ first > 1000
                  /\ second > 1000)
                   => salary_result = [min_salary |-> Some(first), max_salary |-> Some(second)]
              /\ text \in {S_80K_120K, <<"$","8","0",",","0","0","0"," ","-"," ","$","1","2","0",",","0","0","0">>}
                   => salary_result = [min_salary |-> Some(80000), max_salary |-> Some(120000)]

\* C11: none of the four analyzers and two recommendation generators lets an
\* exception reach its caller: the call returns, and when an exception
\* occurs inside the function (a missing key, a division by zero with an
\* empty company list) the result is the empty list, the empty dict for the
\* two industry functions.
C11_NeverRaises ==
  /\ pc # "crashed"
  /\ pc = "analyzed" =>
       /\ called = "analyze_hiring_trends" /\ HiringTrendsRaises(aggregated)
            => insights = <<>>
       /\ called = "identify_skill_patterns" /\ SkillPatternsRaises(aggregated)
            => insights = <<>>
       /\ called = "detect_market_shifts" /\ MarketShiftsRaises(aggregated)
            => insights = <<>>
       /\ called = "analyze_industry_trends"
          /\ IndustryTrendsRaises(aggregated, companies_data)
            => insights = EmptyDict
  /\ pc = "recommended" =>
       /\ called = "generate_strategic_recommendations" /\ StrategicRaises(insights)
            => recommendations = <<>>
       /\ called = "generate_industry_recommendations"
          /\ IndustryRecommendationsRaise(insights)
            => recommendations = EmptyDict

\* identify_skill_patterns has divided by the length of an empty company
\* list and has returned the empty list
C11_Witness ==
  /\ pc = "analyzed"
  /\ called = "identify_skill_patterns"
  /\ "companies" \in DOMAIN aggregated
  /\ "skills_by_company" \in DOMAIN aggregated
  /\ aggregated.companies = <<>>
  /\ aggregated.skills_by_company # EmptyDict
  /\ insights = <<>>

\* C12: missing keys are tolerated section by section: the three list
\* analyzers still return the insights of every section whose own data is
\* present (the role and location insights of analyze_hiring_trends need
\* roles_by_company and locations_by_company only; the surges, the skill
\* patterns and the market shifts need the company list as well).
C12_PresentSectionsReturned ==
  LET Has(type) == \E i \in 1..Len(insights) : insights[i].type = type
      Given(key) == key \in DOMAIN aggregated
      Companies == Given("companies") /\ aggregated.companies # <<>>
  IN  pc = "analyzed" =>
        /\ called = "analyze_hiring_trends" =>
             /\ Given("roles_by_company") => Has("leadership_changes") /\ Has("technology_focus")
             /\ Given("locations_by_company") => Has("remote_work")
             /\ Given("hiring_velocity") /\ Companies => Has("hiring_surge")
        /\ called = "identify_skill_patterns" =>
             (Given("skills_by_company") /\ Companies => Has("unique_skill"))
        /\ called = "detect_market_shifts" =>
             /\ Given("role_distribution") /\ Companies => Has("category_focus")
             /\ Given("location_distribution") /\ Companies => Has("geographic_shift")

\* the number of entries of a list of insights or recommendations of a type
CountOfType(list, type) == Cardinality({i \in 1..Len(list) : list[i].type = type})

StrategicTypes ==
  << "skill_investment", "geographic_expansion", "competitive_monitoring",
     "technology_investment", "competitive_advantage", "strategic_shift",
     "strategic_positioning" >>

IndustryTypes ==
  {"industry_skill_investment", "industry_location_strategy",
   "industry_competitor_analysis", "industry_specialization"}

\* generate_industry_recommendations has returned at most one recommendation
\* of each type for each industry
AtMostOnePerIndustryType ==
  pc = "recommended" /\ called = "generate_industry_recommendations" =>
    \A industry \in DOMAIN recommendations : \A type \in IndustryTypes :
      CountOfType(recommendations[industry], type) <= 1

\* C13 as stated: at most one recommendation per type-category, the
\* divergent strategies included, and at most one per type-category for
\* each industry.
C13_AtMostOnePerCategory ==
  /\ pc = "recommended" /\ called = "generate_strategic_recommendations" =>
       \A t \in 1..Len(StrategicTypes) :
         CountOfType(recommendations, StrategicTypes[t]) <= 1
  /\ AtMostOnePerIndustryType

\* C13 amended: at most one recommendation for each of the six categories
\* emerging skills, geographic shifts, hiring surges, technology focus,
\* unique skills and leadership changes; one strategic_positioning
\* recommendation for each of the first two divergent_strategy insights; at
\* most one per type-category for each industry.
C13_AtMostOneButDivergence ==
  /\ pc = "recommended" /\ called = "generate_strategic_recommendations" =>
       /\ \A t \in 1..(Len(StrategicTypes) - 1) :
            CountOfType(recommendations, StrategicTypes[t]) <= 1
       /\ CountOfType(recommendations, "strategic_positioning") <= 2
       /\ ~StrategicRaises(insights) =>
            /\ CountOfType(insights, "divergent_strategy") = 1
                 => CountOfType(recommendations, "strategic_positioning") = 1
            /\ CountOfType(insights, "divergent_strategy") >= 2
                 => CountOfType(recommendations, "strategic_positioning") = 2
  /\ AtMostOnePerIndustryType

\* two hiring surges have given one recommendation and two divergent
\* strategies two
C13_Witness ==
  /\ pc = "recommended"
  /\ called = "generate_strategic_recommendations"
  /\ ~StrategicRaises(insights)
  /\ CountOfType(insights, "hiring_surge") = 2
  /\ CountOfType(insights, "divergent_strategy") = 2
  /\ CountOfType(recommendations, "competitive_monitoring") = 1
  /\ CountOfType(recommendations, "strategic_positioning") = 2

\* the place of a recommendation type in the order of the rules
RuleOrder(type) == CHOOSE t \in 1..Len(StrategicTypes) : StrategicTypes[t] = type

\* C14: the recommendations of generate_strategic_recommendations appear in
\* the order skill_investment, geographic_expansion, competitive_monitoring,
\* technology_investment, competitive_advantage, strategic_shift,
\* strategic_positioning, whatever the order of the insights in the input;
\* they are not sorted by priority.
C14_FixedOrder ==
  pc = "recommended" /\ called = "generate_strategic_recommendations" =>
    /\ \A i \in 1..Len(recommendations) : recommendations[i].type \in Range(StrategicTypes)
    /\ \A i \in 1..Len(recommendations), j \in 1..Len(recommendations) :
         i < j => RuleOrder(recommendations[i].type) <= RuleOrder(recommendations[j].type)

\* a hiring surge given before two geographic shifts is recommended after
\* them, the medium priority before the high one
C14_Witness ==
  /\ pc = "recommended"
  /\ called = "generate_strategic_recommendations"
  /\ Len(insights) >= 3
  /\ ~StrategicRaises(insights)
  /\ insights[1].type = "hiring_surge"
  /\ insights[2].type = "geographic_shift"
  /\ Len(recommendations) >= 2
  /\ recommendations[1].type = "geographic_expansion"
  /\ recommendations[1].priority = "medium"
  /\ recommendations[2].type = "competitive_monitoring"
  /\ recommendations[2].priority = "high"

\* the insight types that a rule of generate_strategic_recommendations and
\* of generate_industry_recommendations looks for
RecognizedTypes ==
  {"emerging_skill", "geographic_shift", "hiring_surge", "technology_focus",
   "unique_skill", "leadership_changes", "divergent_strategy"}

RecognizedIndustryTypes ==
  {"industry_skills", "industry_hubs", "industry_leader", "industry_specific_skill"}

Typed(list) == \A i \in 1..Len(list) : "type" \in DOMAIN list[i]

\* the list without the insights whose type is not one of types
WithoutOthers(list, types) == SelectSeq(list, LAMBDA insight : insight.type \in types)

\* C15: insights of an unrecognized type change nothing: the result for a
\* list of insights equals the result for the list without the insights
\* whose type no rule looks for, for generate_strategic_recommendations and,
\* industry by industry, for generate_industry_recommendations.
C15_UnrecognizedIgnored ==
  pc = "recommended" =>
    /\ called = "generate_strategic_recommendations" /\ Typed(insights) =>
         recommendations =
           generate_strategic_recommendations(WithoutOthers(insights, RecognizedTypes))
    /\ called = "generate_industry_recommendations"
       /\ (\A industry \in DOMAIN insights : Typed(insights[industry])) =>
         recommendations =
           generate_industry_recommendations(
             [industry \in DOMAIN insights |->
                WithoutOthers(insights[industry], RecognizedIndustryTypes)])

\* a hiring decline stands between recognized insights, and the surge of
\* the list alone is monitored
C15_Witness ==
  /\ pc = "recommended"
  /\ called = "generate_strategic_recommendations"
  /\ Typed(insights)
  /\ Len(insights) >= 3
  /\ insights[1].type = "hiring_surge"
  /\ insights[2].type = "hiring_decline"
  /\ insights[3].type \in RecognizedTypes
  /\ \E i \in 1..Len(recommendations) :
       /\ recommendations[i].type = "competitive_monitoring"
       /\ insights[2].company \notin Range(recommendations[i].companies)

\* the recommendations of generate_industry_recommendations, of all
\* industries
AllIndustryRecommendations ==
  FlatMap(SetToList(DOMAIN recommendations, <<"Tech", "Retail">>),
          LAMBDA industry : recommendations[industry])

\* the first n of the values of a key in the insights of a type, in the
\* order of the list
FirstGiven(list, type, key, n) ==
  LET found == SelectSeq(list, LAMBDA insight : insight.type = type)
  IN  [i \in 1..(IF Len(found) < n THEN Len(found) ELSE n) |-> found[i][key]]

\* C16 as stated: in every recommendation a skills list has at most 3
\* entries and a companies list at most 2.
C16_TopThreeSkillsTopTwoCompanies ==
  LET Bounded(list) ==
        \A i \in 1..Len(list) :
          /\ "skills" \in DOMAIN list[i] => Len(list[i].skills) <= 3
          /\ "companies" \in DOMAIN list[i] => Len(list[i].companies) <= 2
  IN  pc = "recommended" =>
        /\ called = "generate_strategic_recommendations" => Bounded(recommendations)
        /\ called = "generate_industry_recommendations" =>
             Bounded(AllIndustryRecommendations)

\* C16 amended: a skills list holds the first 3 skills at most, the
\* companies of competitive_monitoring the first 3 surging companies at
\* most, the companies of strategic_shift the first 2 companies with
\* leadership changes at most, the companies of strategic_positioning the
\* top and the bottom company of its insight; all in the order of the input.
C16_TopN ==
  pc = "recommended" =>
    /\ called = "generate_strategic_recommendations" /\ ~StrategicRaises(insights) =>
         \A i \in 1..Len(recommendations) :
           LET r == recommendations[i]
           IN  /\ r.type = "skill_investment" =>
                    /\ Len(r.skills) <= 3
                    /\ r.skills = FirstGiven(insights, "emerging_skill", "skill", 3)
               /\ r.type = "competitive_monitoring" =>
                    /\ Len(r.companies) <= 3
                    /\ r.companies = FirstGiven(insights, "hiring_surge", "company", 3)
               /\ r.type = "strategic_shift" =>
                    /\ Len(r.companies) <= 2
                    /\ r.companies = FirstGiven(insights, "leadership_changes", "company", 2)
               /\ r.type = "strategic_positioning" =>
                    /\ Len(r.companies) = 2
                    /\ \E k \in 1..Len(insights) :
                         /\ insights[k].type = "divergent_strategy"
                         /\ r.companies = <<insights[k].top_company,
                                            insights[k].bottom_company>>
    /\ called = "generate_industry_recommendations"
       /\ ~IndustryRecommendationsRaise(insights) =>
         \A industry \in DOMAIN recommendations :
           \A i \in 1..Len(recommendations[industry]) :
             LET r == recommendations[industry][i]
             IN  r.type = "industry_skill_investment" =>
                   /\ Len(r.skills) <= 3
                   /\ \E k \in 1..Len(insights[industry]) :
                        /\ insights[industry][k].type = "industry_skills"
                        /\ r.skills = SubSeq(insights[industry][k].top_skills, 1, Len(r.skills))

\* four emerging skills are cut to the first three
C16_Witness ==
  /\ pc = "recommended"
  /\ called = "generate_strategic_recommendations"
  /\ Len(insights) = 4
  /\ \A i \in 1..4 : "type" \in DOMAIN insights[i] /\ insights[i].type = "emerging_skill"
  /\ ~StrategicRaises(insights)
  /\ Len(recommendations) = 1
  /\ recommendations[1].skills = <<insights[1].skill, insights[2].skill, insights[3].skill>>

\* C17: no stage changes its argument: when process_job_data,
\* aggregate_job_data, an analyzer or a recommendation generator returns,
\* normally or through its fallback, job_listings, processed_data, the
\* analyzed dict with the company metadata, and the insights are what they
\* were before the call.
C17_InputsUnchanged ==
  [][/\ pc = "start" /\ pc' # "start" => job_listings' = job_listings
     /\ pc = "processed" /\ pc' = "aggregated" => processed_data' = processed_data
     /\ pc' = "analyzed" => aggregated' = aggregated /\ companies_data' = companies_data
     /\ pc' = "recommended" => insights' = insights]_vars

\* the four stages have run one after the other on listings of a company
C17_Witness ==
  /\ pc = "recommended"
  /\ called = "generate_strategic_recommendations"
  /\ run = 1
  /\ DOMAIN job_listings # {}
  /\ processed_data # NotYet
  /\ aggregated # NotYet
  /\ processed_data.skills # EmptyDict
  /\ aggregated.skills_by_company = processed_data.skills
  /\ insights # NotYet

\* C18: the result of aggregate_job_data shares no map with the processed
\* data it was given: when the caller changes a count in skills_by_company,
\* locations_by_company or roles_by_company of a company, the processed
\* data stay as they were.
C18_FreshStructure ==
  [][pc = "aggregated" /\ pc' = "updated" => processed_data' = processed_data]_vars

\* the metadata records that carry a label, and those labelled industry
LabelledRecords(industry) ==
  {i \in 1..Len(companies_data) :
     /\ "industry" \in DOMAIN companies_data[i]
     /\ companies_data[i].industry = industry}

\* the names that the insights of an industry mention
Mentioned(list) ==
  {list[i].company : i \in {j \in 1..Len(list) : "company" \in DOMAIN list[j]}}

\* C19: an industry with fewer than 2 companies in the metadata gets no
\* insight of any type, whatever the data of its company; a record without
\* industry label belongs to no group: the groups are the labels that occur,
\* an industry is counted by its labelled records only, and a leader is one
\* of them.
C19_SmallIndustriesSkipped ==
  pc = "analyzed" /\ called = "analyze_industry_trends" =>
    /\ DOMAIN insights = {companies_data[i].industry :
                            i \in {j \in 1..Len(companies_data) :
                                     /\ "industry" \in DOMAIN companies_data[j]
                                     /\ companies_data[j].industry # ""}}
    /\ \A industry \in DOMAIN insights :
         /\ Cardinality(LabelledRecords(industry)) < 2 => insights[industry] = <<>>
         /\ Mentioned(insights[industry])
              \subseteq {companies_data[i].name :
                           i \in {j \in LabelledRecords(industry) :
                                    "name" \in DOMAIN companies_data[j]}}

\* A alone is labelled Tech and has skills, locations and the highest count,
\* B alone is labelled Retail, C has no label: no industry gets an insight
C19_Witness ==
  /\ pc = "analyzed"
  /\ called = "analyze_industry_trends"
  /\ Cardinality(LabelledRecords("Tech")) = 1
  /\ companies_data[1] = [name |-> "A", industry |-> "Tech"]
  /\ aggregated.hiring_velocity[1].A = MaxVelocity
  /\ "A" \in DOMAIN aggregated.skills_by_company
  /\ insights["Tech"] = <<>>
  /\ "industry" \notin DOMAIN companies_data[3]
  /\ Cardinality(LabelledRecords("Retail")) = 1
  /\ insights["Retail"] = <<>>

\* the members of an industry that have a velocity: the names of its
\* records that are in the company list
Measured(industry) ==
  {companies_data[i].name :
     i \in {j \in LabelledRecords(industry) :
              /\ "name" \in DOMAIN companies_data[j]
              /\ companies_data[j].name \in Range(aggregated.companies)}}

\* the sum of the counts of a company over the periods; its velocity is
\* this sum divided by the number of periods
CountsOf(company) ==
  SumSeq([i \in 1..Len(aggregated.hiring_velocity) |->
            IF company \in DOMAIN aggregated.hiring_velocity[i]
            THEN aggregated.hiring_velocity[i][company] ELSE 0])

\* velocity >= 1.25 * industry average, both multiplied by the number of
\* periods, by the number of measured members and by 4
IsCandidate(industry, company) ==
  4 * Cardinality(Measured(industry)) * CountsOf(company)
    >= 5 * SumOver([c \in Measured(industry) |-> CountsOf(c)], Measured(industry))

\* C20: an industry with at least 2 companies gets at most one
\* industry_leader insight; it gets one exactly when a member has a velocity
\* of at least 1.25 times the industry average; the insight names a
\* candidate of the highest velocity; the percentage above the average is
\* 100 when the average is 0 and is never a division by zero.
C20_IndustryLeader ==
  pc = "analyzed" /\ called = "analyze_industry_trends" =>
    \A industry \in DOMAIN insights :
      Cardinality(LabelledRecords(industry)) >= 2 =>
        LET leaders == SelectSeq(insights[industry],
                                 LAMBDA insight : insight.type = "industry_leader")
        IN  /\ Len(leaders) <= 1
            /\ Len(leaders) = 1 <=>
                 \E c \in Measured(industry) : IsCandidate(industry, c)
            /\ Len(leaders) = 1 =>
                 /\ leaders[1].company \in Measured(industry)
                 /\ IsCandidate(industry, leaders[1].company)
                 /\ \A c \in Measured(industry) :
                      IsCandidate(industry, c) =>
                        CountsOf(leaders[1].company) >= CountsOf(c)
                 /\ leaders[1].insight.percentage_above.den > 0
                 /\ leaders[1].industry_avg.num = 0 =>
                      leaders[1].insight.percentage_above = [num |-> 100, den |-> 1]
                 /\ leaders[1].industry_avg.num > 0 =>
                      leaders[1].insight.percentage_above.num
                          * leaders[1].industry_avg.num * leaders[1].velocity.den
                        = 100 * (leaders[1].velocity.num * leaders[1].industry_avg.den
                                  - leaders[1].industry_avg.num * leaders[1].velocity.den)
                          * leaders[1].insight.percentage_above.den

\* A with 5 jobs and B with 3 in one period are the Tech industry: A is at
\* 1.25 times the average of 4 and is named the leader
C20_Witness ==
  /\ pc = "analyzed"
  /\ called = "analyze_industry_trends"
  /\ Len(aggregated.hiring_velocity) = 1
  /\ aggregated.hiring_velocity[1].A = 5
  /\ aggregated.hiring_velocity[1].B = 3
  /\ Measured("Tech") = {"A", "B"}
  /\ \E i \in 1..Len(insights["Tech"]) :
       /\ insights["Tech"][i].type = "industry_leader"
       /\ insights["Tech"][i].company = "A"
       /\ insights["Tech"][i].insight.percentage_above = [num |-> 200, den |-> 8]

\* no member of the industry has posted a job: the average is 0 and the
\* first member is reported 100 percent above it
C20_ZeroAverage ==
  /\ pc = "analyzed"
  /\ called = "analyze_industry_trends"
  /\ Measured("Tech") = {"A", "B"}
  /\ CountsOf("A") = 0
  /\ CountsOf("B") = 0
  /\ \E i \in 1..Len(insights["Tech"]) :
       /\ insights["Tech"][i].type = "industry_leader"
       /\ insights["Tech"][i].insight.percentage_above = [num |-> 100, den |-> 1]

\* the metadata records labelled with another industry than industry
OtherRecords(industry) ==
  {i \in 1..Len(companies_data) :
     /\ "industry" \in DOMAIN companies_data[i]
     /\ companies_data[i].industry \notin {"", industry}}

\* the records of a set whose company lists the skill
ListedBy(records, skill) ==
  {i \in records :
     /\ "name" \in DOMAIN companies_data[i]
     /\ companies_data[i].name \in DOMAIN aggregated.skills_by_company
     /\ skill \in DOMAIN aggregated.skills_by_company[companies_data[i].name]}

\* prevalence in the industry >= 0.40 and ratio >= 2, the ratio infinite
\* when no company of the other industries lists the skill
Qualifies(industry, skill) ==
  LET a == Cardinality(ListedBy(LabelledRecords(industry), skill))
      n == Cardinality(LabelledRecords(industry))
      b == Cardinality(ListedBy(OtherRecords(industry), skill))
      m == Cardinality(OtherRecords(industry))
  IN  /\ 100 * a >= 40 * n
      /\ b = 0 \/ a * m >= 2 * n * b

\* the ratio of skill s is at least that of skill t in the industry
RatioNotBelow(industry, s, t) ==
  LET as == Cardinality(ListedBy(LabelledRecords(industry), s))
      bs == Cardinality(ListedBy(OtherRecords(industry), s))
      at == Cardinality(ListedBy(LabelledRecords(industry), t))
      bt == Cardinality(ListedBy(OtherRecords(industry), t))
  IN  bs = 0 \/ (bt > 0 /\ as * bt >= at * bs)

\* C21: for every industry at most one industry_specific_skill insight is
\* emitted; an industry of at least 2 companies gets one iff some skill
\* qualifies, a skill qualifying iff its prevalence among the companies of
\* the industry is at least 0.40 and its ratio to the prevalence among the
\* companies of the other industries is at least 2 (infinite when that
\* prevalence is 0); the skill reported qualifies and no qualifying skill
\* has a higher ratio.
C21_IndustrySpecificSkill ==
  pc = "analyzed" /\ called = "analyze_industry_trends"
  /\ "skills_by_company" \in DOMAIN aggregated =>
    \A industry \in DOMAIN insights :
      LET reported == OfType(insights[industry], "industry_specific_skill")
          skills   == AllSkills(aggregated.skills_by_company)
      IN  /\ Len(reported) <= 1
          /\ Cardinality(LabelledRecords(industry)) >= 2 =>
               (reported # <<>> <=> \E skill \in skills : Qualifies(industry, skill))
          /\ \A i \in 1..Len(reported) :
               /\ Qualifies(industry, reported[i].skill)
               /\ \A t \in skills :
                    Qualifies(industry, t) => RatioNotBelow(industry, reported[i].skill, t)

\* two skills qualify in Tech with different ratios, the second skill of the
\* list has the higher one and is reported
C21_Witness ==
  /\ pc = "analyzed" /\ called = "analyze_industry_trends"
  /\ "skills_by_company" \in DOMAIN aggregated
  /\ "Tech" \in DOMAIN insights
  /\ Qualifies("Tech", common_skills[1]) /\ Qualifies("Tech", common_skills[2])
  /\ ~RatioNotBelow("Tech", common_skills[1], common_skills[2])
  /\ OfType(insights["Tech"], "industry_specific_skill")
       = << [type |-> "industry_specific_skill", industry |-> "Tech",
             skill |-> common_skills[2]] >>

\* the jobs of a company in the rows of role_distribution assigned to the
\* category of index k, and in the rows assigned to any category
CategoryJobs(company, k) ==
  LET rows == aggregated.role_distribution
  IN  SumSeq([i \in 1..Len(rows) |->
                IF assigned_category(rows[i].role) = k /\ company \in DOMAIN rows[i]
                THEN rows[i][company] ELSE 0])

MixJobs(company) ==
  LET rows == aggregated.role_distribution
  IN  SumSeq([i \in 1..Len(rows) |->
                IF assigned_category(rows[i].role) # 0 /\ company \in DOMAIN rows[i]
                THEN rows[i][company] ELSE 0])

\* the companies with a category mix
WithMix == {c \in Range(aggregated.companies) : MixJobs(c) > 0}

\* the percentage of category k in the mix of c is at least that of d
ShareAtLeast(c, d, k) ==
  CategoryJobs(c, k) * MixJobs(d) >= CategoryJobs(d, k) * MixJobs(c)

\* top has the highest and bottom the lowest percentage of category k, the
\* spread is at least 30 points and the top value at least 25%
Diverges(top, bottom, k) ==
  /\ \A c \in WithMix : ShareAtLeast(top, c, k) /\ ShareAtLeast(c, bottom, k)
  /\ 100 * (CategoryJobs(top, k) * MixJobs(bottom) - CategoryJobs(bottom, k) * MixJobs(top))
       >= 30 * MixJobs(top) * MixJobs(bottom)
  /\ 100 * CategoryJobs(top, k) >= 25 * MixJobs(top)

\* C22: for every role category detect_market_shifts emits a
\* divergent_strategy insight iff at least 2 companies have a category mix,
\* the highest percentage of the category exceeds the lowest by at least 30
\* points and the highest is at least 25%; the insight names a company with
\* the highest and one with the lowest percentage, and there is at most one
\* per category.
C22_DivergentStrategy ==
  pc = "analyzed" /\ called = "detect_market_shifts"
  /\ "role_distribution" \in DOMAIN aggregated /\ "companies" \in DOMAIN aggregated =>
    \A k \in 1..Len(role_categories) :
      LET emitted == SelectSeq(insights,
                       LAMBDA x : /\ x.type = "divergent_strategy"
                                  /\ x.category = role_categories[k].name)
      IN  /\ Len(emitted) <= 1
          /\ emitted # <<>> <=>
               /\ Cardinality(WithMix) >= 2
               /\ \E top \in WithMix, bottom \in WithMix : Diverges(top, bottom, k)
          /\ \A i \in 1..Len(emitted) :
               /\ emitted[i].top_company \in WithMix
               /\ emitted[i].bottom_company \in WithMix
               /\ Diverges(emitted[i].top_company, emitted[i].bottom_company, k)

\* A has 4 of 5 jobs of its mix in Engineering and B 1 of 2: the spread is
\* exactly 30 points and the insight names A as the top
C22_Witness ==
  /\ pc = "analyzed" /\ called = "detect_market_shifts"
  /\ WithMix = {"A", "B"}
  /\ CategoryJobs("A", 1) = 4 /\ MixJobs("A") = 5
  /\ CategoryJobs("B", 1) = 1 /\ MixJobs("B") = 2
  /\ \E i \in 1..Len(insights) :
       /\ insights[i].type = "divergent_strategy"
       /\ insights[i].category = "Engineering"
       /\ insights[i].top_company = "A"
       /\ insights[i].difference.num * 10 = 3 * 100 * insights[i].difference.den

\* the first group of a table of analyze_hiring_trends one of whose keywords
\* the text contains, 0 when there is none
FirstListed(table, text) ==
  LET hits == {i \in 1..Len(table) :
                 IF table = tech_categories THEN in_tech_category(table[i], text)
                 ELSE in_region(table[i], text)}
  IN  IF hits = {} THEN 0 ELSE MinOf(hits)

\* the jobs of a dict of counts whose key is bucketed into group k of the
\* table when every key goes to its first listed group only
FirstListedCount(table, counts, k) ==
  SumOver(counts, {text \in DOMAIN counts : FirstListed(table, text) = k})

\* the insights of a type about a company and a group
About(type, company, field, name) ==
  SelectSeq(insights, LAMBDA x : /\ x.type = type
                                 /\ x.company = company
                                 /\ x[field] = name)

\* C23: in every category bucketing a string is counted in at most one
\* category, the first listed one whose keyword it contains: the
\* technology_focus and geographic_expansion insights of analyze_hiring_trends
\* are those of the counts in which every role and every location goes to its
\* first listed group only, and so are the category_focus and
\* geographic_shift insights of detect_market_shifts.
C23_FirstMatchOnly ==
  /\ pc = "analyzed" /\ called = "analyze_hiring_trends"
     /\ "roles_by_company" \in DOMAIN aggregated
     /\ "locations_by_company" \in DOMAIN aggregated =>
       /\ \A company \in DOMAIN aggregated.roles_by_company :
            \A k \in 1..Len(tech_categories) :
              LET count == FirstListedCount(tech_categories,
                                            aggregated.roles_by_company[company], k)
                  about == About("technology_focus", company, "category",
                                 tech_categories[k].name)
              IN  /\ about # <<>> <=> count >= TechFocusMin
                  /\ \A i \in 1..Len(about) : about[i].count = count
       /\ \A company \in DOMAIN aggregated.locations_by_company :
            \A k \in 1..Len(regions) :
              LET count == FirstListedCount(regions,
                                            aggregated.locations_by_company[company], k)
                  about == About("geographic_expansion", company, "region",
                                 regions[k].name)
              IN  /\ about # <<>> <=> count >= RegionMin
                  /\ \A i \in 1..Len(about) : about[i].count = count
  /\ pc = "analyzed" /\ called = "detect_market_shifts"
     /\ "role_distribution" \in DOMAIN aggregated
     /\ "companies" \in DOMAIN aggregated =>
       \A company \in Range(aggregated.companies) :
         \A k \in 1..Len(role_categories) :
           About("category_focus", company, "category", role_categories[k].name) # <<>>
             <=> /\ MixJobs(company) > 0
                 /\ 100 * CategoryJobs(company, k) >= CategoryFocusMin * MixJobs(company)

\* all the jobs of a company in role_distribution
AllJobs(company) == PeriodCount(aggregated.role_distribution, company)

\* C24: detect_market_shifts emits a category_focus insight for a company and
\* a role category iff the company's jobs in that category are at least 40%
\* of all its jobs in role_distribution, the jobs whose role matches no
\* category included.
C24_ShareOfAllJobs ==
  pc = "analyzed" /\ called = "detect_market_shifts"
  /\ "role_distribution" \in DOMAIN aggregated /\ "companies" \in DOMAIN aggregated =>
    \A company \in Range(aggregated.companies) :
      \A k \in 1..Len(role_categories) :
        About("category_focus", company, "category", role_categories[k].name) # <<>>
          <=> /\ AllJobs(company) > 0
              /\ 100 * CategoryJobs(company, k) >= CategoryFocusMin * AllJobs(company)

\* C25: analyze_hiring_trends splits a velocity series of n rows at
\* floor(n / 2): the earlier half is the first floor(n / 2) rows and the
\* recent half the rest, so the extra row of an odd n is in the recent half
\* and every row is in exactly one half; the change reported for a company is
\* that of the sums over these two halves.
C25_SplitAtFloorHalf ==
  pc = "analyzed" /\ called = "analyze_hiring_trends"
  /\ "hiring_velocity" \in DOMAIN aggregated =>
    LET rows == aggregated.hiring_velocity
        n    == Len(rows)
        Count(c, i) == IF c \in DOMAIN rows[i] THEN rows[i][c] ELSE 0
        E(c) == SumSeq([i \in 1..(n \div 2) |-> Count(c, i)])
        R(c) == SumSeq([i \in 1..(n - n \div 2) |-> Count(c, n \div 2 + i)])
    IN  /\ Len(EarlierHalf(rows)) = n \div 2
        /\ Len(RecentHalf(rows)) = n - n \div 2
        /\ EarlierHalf(rows) \o RecentHalf(rows) = rows
        /\ n % 2 = 1 => Len(RecentHalf(rows)) = Len(EarlierHalf(rows)) + 1
        /\ \A i \in 1..Len(insights) :
             insights[i].type \in {"hiring_surge", "hiring_decline"} =>
               /\ insights[i].percent_change.den = E(insights[i].company)
               /\ insights[i].percent_change.num
                    = 100 * (R(insights[i].company) - E(insights[i].company))

\* a series of 3 rows with the counts 2, 5 and 1 of A: the middle row is in
\* the recent half, 2 against 6, and a surge of 200% is reported
C25_Witness ==
  /\ pc = "analyzed" /\ called = "analyze_hiring_trends"
  /\ "hiring_velocity" \in DOMAIN aggregated
  /\ Len(aggregated.hiring_velocity) = 3
  /\ aggregated.hiring_velocity[1]["A"] = 2
  /\ aggregated.hiring_velocity[2]["A"] = 5
  /\ aggregated.hiring_velocity[3]["A"] = 1
  /\ \E i \in 1..Len(insights) :
       /\ insights[i].type = "hiring_surge" /\ insights[i].company = "A"
       /\ insights[i].percent_change = [num |-> 400, den |-> 2]

\* the sum of the 30 buckets of the time series of a company
BucketSum(company) ==
  SumOver(processed_data.time_series[company], DOMAIN processed_data.time_series[company])

\* C26: in a result of process_job_data that is not degraded, for every
\* company the role counts and the location counts each add up to the
\* company's entry of job_counts, the number of its listings; the 30 buckets
\* of its time series add up to at most that number, and to exactly that
\* number iff every listing has a date inside the 30-day window.
C26_Conservation ==
  (processed_data # NotYet /\ "all_roles" \in DOMAIN processed_data)
  => \A i \in 1..Len(processed_data.companies) :
       LET c    == processed_data.companies[i]
           jobs == job_listings[i][2].list
           window == (now_seen[i] - (WindowDays - 1))..now_seen[i]
       IN  /\ processed_data.job_counts[i] = Len(jobs)
           /\ SumOver(processed_data.roles[c], DOMAIN processed_data.roles[c])
                = processed_data.job_counts[i]
           /\ SumOver(processed_data.locations[c], DOMAIN processed_data.locations[c])
                = processed_data.job_counts[i]
           /\ BucketSum(c) <= processed_data.job_counts[i]
           /\ BucketSum(c) = processed_data.job_counts[i]
                <=> \A k \in 1..Len(jobs) :
                      "date" \in DOMAIN jobs[k] /\ jobs[k].date.day \in window

\* the two listings of A are dated on the first and the last day of the
\* window and its buckets add up to 2; the one listing of B has no date and
\* its buckets add up to 0
C26_Witness ==
  /\ pc = "processed"
  /\ "all_roles" \in DOMAIN processed_data
  /\ Len(job_listings) = 2
  /\ job_listings[1][2].list = <<K_AI, K_Sales>>
  /\ job_listings[2][2].list = <<K_Undated>>
  /\ BucketSum("A") = 2 /\ processed_data.job_counts[1] = 2
  /\ BucketSum("B") = 0 /\ processed_data.job_counts[2] = 1

\* C27: when process_job_data returned the skeleton, aggregate_job_data
\* returns the all-empty fallback: total_jobs_by_company is empty although
\* the skeleton carried the companies and their job counts; the same
\* fallback is returned for an input with zero companies.
C27_SkeletonAggregatesToEmpty ==
  (/\ aggregated # NotYet /\ processed_data # NotYet
   /\ "all_roles" \notin DOMAIN processed_data \/ processed_data.companies = <<>>)
  => aggregated = [total_jobs_by_company |-> <<>>,
                   skills_by_company     |-> <<>>,
                   locations_by_company  |-> <<>>,
                   roles_by_company      |-> <<>>,
                   skills_heatmap_data   |-> <<>>,
                   location_distribution |-> <<>>,
                   role_distribution     |-> <<>>,
                   hiring_velocity       |-> <<>>]

\* the skeleton of two companies with a job count each was aggregated, and
\* the totals are empty
C27_Witness ==
  /\ pc = "aggregated"
  /\ "all_roles" \notin DOMAIN processed_data
  /\ processed_data.companies = <<"A", "B">>
  /\ processed_data.job_counts = <<2, 1>>
  /\ aggregated.total_jobs_by_company = <<>>

\* an insight of the list lacks the skill or the company that the rule of
\* its type reads
LacksSkillOrCompany(list) ==
  \E i \in 1..Len(list) :
    /\ "type" \in DOMAIN list[i]
    /\ \/ list[i].type \in {"emerging_skill", "unique_skill"}
          /\ "skill" \notin DOMAIN list[i]
       \/ list[i].type \in {"hiring_surge", "unique_skill", "leadership_changes"}
          /\ "company" \notin DOMAIN list[i]

\* C28: the analysis functions are all-or-nothing: an exception in a later
\* section of analyze_hiring_trends (a locations map that is None), of
\* detect_market_shifts (a location row without location) or of
\* generate_strategic_recommendations (an insight lacking its skill or company
\* field) discards what the earlier sections built and the empty list is
\* returned; a list that is not empty holds the output of every section, in
\* identify_skill_patterns as well.
C28_AllOrNothing ==
  /\ pc = "analyzed" /\ called = "analyze_hiring_trends" =>
       /\ "other" \in DOMAIN aggregated.locations_by_company => insights = <<>>
       /\ insights # <<>> =>
            insights = VelocityInsights(aggregated) \o RoleInsights(aggregated)
                       \o LocationInsights(aggregated)
  /\ pc = "analyzed" /\ called = "detect_market_shifts" =>
       /\ (\E i \in 1..Len(aggregated.location_distribution) :
             "location" \notin DOMAIN aggregated.location_distribution[i])
            => insights = <<>>
       /\ insights # <<>> =>
            insights = RoleShiftInsights(aggregated) \o GeographicShiftInsights(aggregated)
  /\ pc = "analyzed" /\ called = "identify_skill_patterns" =>
       (insights # <<>> =>
          insights = EmergingInsights(aggregated, HashOrder(hash_seed))
                     \o CompetitiveInsights(aggregated, HashOrder(hash_seed))
                     \o FlatMap(aggregated.companies,
                                LAMBDA company : UniqueInsight(aggregated, company)))
  /\ pc = "recommended" /\ called = "generate_strategic_recommendations" =>
       /\ LacksSkillOrCompany(insights) => recommendations = <<>>
       /\ recommendations # <<>> => recommendations = StrategicRules(insights)

\* the surge and the role insights of A were built when the location section
\* failed on a locations map that is None, and the empty list was returned
C28_Witness ==
  /\ pc = "analyzed" /\ called = "analyze_hiring_trends"
  /\ "other" \in DOMAIN aggregated.locations_by_company
  /\ VelocityInsights(aggregated) # <<>>
  /\ RoleInsights(aggregated) # <<>>
  /\ insights = <<>>

\* the first record of an industry, in the order of the metadata, whose
\* company is in the company list
FirstMeasured(industry) ==
  MinOf({i \in LabelledRecords(industry) :
           /\ "name" \in DOMAIN companies_data[i]
           /\ companies_data[i].name \in Range(aggregated.companies)})

\* C29: when every member of an industry with at least 2 members in the
\* metadata and at least one in the company list has velocity 0 over a series
\* that is not empty, an industry_leader insight is still emitted: it names
\* the first such member in metadata order and reports velocity 0 and
\* industry_avg 0.
C29_ZeroVelocityLeader ==
  pc = "analyzed" /\ called = "analyze_industry_trends"
  /\ "hiring_velocity" \in DOMAIN aggregated /\ "companies" \in DOMAIN aggregated =>
    \A industry \in DOMAIN insights :
      (/\ Cardinality(LabelledRecords(industry)) >= 2
       /\ Measured(industry) # {}
       /\ Len(aggregated.hiring_velocity) > 0
       /\ \A c \in Measured(industry) : CountsOf(c) = 0)
      => LET leaders == OfType(insights[industry], "industry_leader")
         IN  /\ Len(leaders) = 1
             /\ leaders[1].company = companies_data[FirstMeasured(industry)].name
             /\ leaders[1].velocity.num = 0 /\ leaders[1].velocity.den > 0
             /\ leaders[1].industry_avg.num = 0 /\ leaders[1].industry_avg.den > 0

\* B and C are the Tech industry, A is not; neither has posted a job in the
\* one period of the series, and B is named the leader
C29_Witness ==
  /\ pc = "analyzed" /\ called = "analyze_industry_trends"
  /\ Len(aggregated.hiring_velocity) = 1
  /\ Measured("Tech") = {"B", "C"}
  /\ CountsOf("B") = 0 /\ CountsOf("C") = 0
  /\ CountsOf("A") > 0
  /\ \E i \in 1..Len(insights["Tech"]) :
       /\ insights["Tech"][i].type = "industry_leader"
       /\ insights["Tech"][i].company = "B"
       /\ insights["Tech"][i].velocity.num = 0
       /\ insights["Tech"][i].industry_avg.num = 0

\* the order of the rules of generate_industry_recommendations
IndustryRuleOrder ==
  << "industry_skill_investment", "industry_location_strategy",
     "industry_competitor_analysis", "industry_specialization" >>

\* C30: when it does not fail, analyze_industry_trends returns a map whose
\* keys are exactly the non-empty industry labels of the metadata, those of
\* fewer than 2 companies included, which are mapped to the empty list; when
\* it does not fail, generate_industry_recommendations returns a map with
\* exactly the keys of its input, each with at most 4 recommendations in the
\* order industry_skill_investment, industry_location_strategy,
\* industry_competitor_analysis, industry_specialization.
C30_IndustryKeys ==
  /\ pc = "analyzed" /\ called = "analyze_industry_trends"
     /\ ~IndustryTrendsRaises(aggregated, companies_data) =>
       /\ \A i \in 1..Len(companies_data) :
            "industry" \in DOMAIN companies_data[i] /\ companies_data[i].industry # ""
              => companies_data[i].industry \in DOMAIN insights
       /\ \A industry \in DOMAIN insights :
            /\ industry # ""
            /\ LabelledRecords(industry) # {}
            /\ Cardinality(LabelledRecords(industry)) < 2 => insights[industry] = <<>>
  /\ pc = "recommended" /\ called = "generate_industry_recommendations"
     /\ (\A industry \in DOMAIN insights : Typed(insights[industry])) =>
       /\ DOMAIN recommendations = DOMAIN insights
       /\ \A industry \in DOMAIN recommendations :
            LET list == recommendations[industry]
                Rank(type) == CHOOSE r \in 1..Len(IndustryRuleOrder) :
                                IndustryRuleOrder[r] = type
            IN  /\ Len(list) <= 4
                /\ \A i \in 1..Len(list) : list[i].type \in Range(IndustryRuleOrder)
                /\ \A i \in 1..(Len(list) - 1) : Rank(list[i].type) < Rank(list[i + 1].type)

\* the analysis gave Retail, an industry of one company, the empty list and
\* Tech four insights; the recommendations have both keys, none for Retail
\* and the four of Tech in the order of the rules
C30_Witness ==
  /\ pc = "recommended" /\ called = "generate_industry_recommendations"
  /\ aggregated # NotYet
  /\ DOMAIN insights = {"Tech", "Retail"}
  /\ insights["Retail"] = <<>>
  /\ DOMAIN recommendations = {"Tech", "Retail"}
  /\ recommendations["Retail"] = <<>>
  /\ [i \in 1..Len(recommendations["Tech"]) |-> recommendations["Tech"][i].type]
       = IndustryRuleOrder

Next ==
  \/ Tick
  \/ ProcessJobData
  \/ AggregateJobData
  \/ AnalyzeHiringTrends
  \/ Rerun

Spec == Init /\ [][Next]_vars

NextTrends == AnalyzeHiringTrends

SpecTrends == InitTrends /\ [][NextTrends]_vars

NextSkills == IdentifySkillPatterns

SpecSkills == InitSkills /\ [][NextSkills]_vars

NextSalary == ExtractSalaryRange

SpecSalary == InitSalary /\ [][NextSalary]_vars

NextAnalysis ==
  \/ AnalyzeHiringTrends
  \/ IdentifySkillPatterns
  \/ DetectMarketShifts
  \/ AnalyzeIndustryTrends
  \/ GenerateStrategicRecommendations
  \/ GenerateIndustryRecommendations

SpecAnalysis == (InitAnalysis \/ InitRecs) /\ [][NextAnalysis]_vars

NextIndustry ==
  \/ AnalyzeIndustryTrends
  \/ GenerateIndustryRecommendations

SpecIndustry == InitIndustry /\ [][NextIndustry]_vars

NextStages ==
  \/ Tick
  \/ ProcessJobData
  \/ AggregateJobData
  \/ AnalyzeHiringTrends
  \/ IdentifySkillPatterns
  \/ DetectMarketShifts
  \/ AnalyzeIndustryTrends
  \/ GenerateStrategicRecommendations
  \/ GenerateIndustryRecommendations

SpecStages == (Init \/ InitAnalysis \/ InitRecs) /\ [][NextStages]_vars

\* the pipeline up to the aggregated data, and a caller that updates them
NextSharing ==
  \/ Tick
  \/ ProcessJobData
  \/ AggregateJobData
  \/ CallerUpdates

SpecSharing == Init /\ [][NextSharing]_vars

\* the industry analysis of the inputs on the skills of an industry
SpecSpecific == InitSpecific /\ [][NextIndustry]_vars

\* the two analyses of the roles and locations on the inputs on the category
\* mixes
NextShifts ==
  \/ AnalyzeHiringTrends
  \/ DetectMarketShifts

SpecShifts == InitShifts /\ [][NextShifts]_vars

\* the analyzers on the possibly malformed data, and the generators
SpecFaults == (InitFaults \/ InitRecs) /\ [][NextAnalysis]_vars

\* the industry analysis of the data of three companies, and the industry
\* recommendations for its result or for the insights a caller holds
SpecLabels == (InitIndustry \/ InitRecs) /\ [][NextIndustry]_vars

====
